---- MODULE Spec2Model ----
(***************************************************************************)
(* Quiz sessions of the O'Reilly RAG quiz backend: QuizManagerService      *)
(* (create_quiz, start_quiz_session, submit_answer and the completion      *)
(* cascade) and LearningAnalyticsService, run by request handlers that     *)
(* each own a SQLAlchemy session made by SessionLocal (autocommit=False,   *)
(* autoflush=False).  The database is the committed state; a handler works *)
(* on copies of the rows it has loaded and writes the attributes it        *)
(* changed when it commits.  Every round trip to the database (a SELECT, a *)
(* commit, the reload of an object that a commit expired) is a step of its *)
(* own, so that the commits of other handlers can fall between any two.    *)
(***************************************************************************)
EXTENDS Integers, Sequences, FiniteSets, Bags, TLC

\* ------------------------------------------------------------------ bounds
MaxQuizzes == 1
MaxSessions == 2
MaxQuestions == 2
\* The clock counts moments.  Two readings of the clock that follow each
\* other are a moment apart, and a day has MomentsPerDay moments, more than
\* the clock is read in any run, so that requests served one right after the
\* other stay within the day.  The clock is followed for MaxDays days.
MaxDays == 3
MomentsPerDay == 16
\* a run of the quiz manager alone is followed until the clock has been read
\* MaxReadings times, a run on stored progress rows or on the empty
\* user_progress table until it has been read MaxSeededReadings times
MaxReadings == 2
MaxSeededReadings == 6

\* ------------------------------------------------------------ input sets
Handlers == {1, 2}
NoUser == "none"
Users == {NoUser, "u1"}
Topics == {"t1"}
DifficultyLevel == {"beginner", "intermediate", "advanced"}
\* what create_quiz is asked for
QuizDifficulties == {"intermediate"}
PassingScores == {50}
QuizStatus == {"in_progress", "completed", "abandoned"}
MasteryLevel == {"novice", "learning", "proficient", "expert"}
Null == [null |-> TRUE]
UtcNow == 0

\* ------------------------------------------------------ Python's floats
\* A float is an IEEE 754 double.  The doubles the service computes lie
\* within a few units in the last place of a fraction n/d with small n and
\* d, so a double is written [n, d, err]: it is the number
\*     n/d + (err/d) * 2^-HalfUlp(n, d),
\* where 2^-HalfUlp(n, d) is half the distance between neighbouring doubles
\* around n/d.  An integer, and every fraction a double holds exactly, has
\* err = 0; (11 / 20) * 100 is [55, 1, 2], one double above 55.
RECURSIVE GCD(_, _)
GCD(a, b) == IF b = 0 THEN a ELSE GCD(b, a % b)

\* exact fractions n/d in lowest terms, d > 0: the arithmetic behind a
\* float operation before its result is rounded
Frac(n, d) ==
    LET g == GCD(IF n < 0 THEN -n ELSE n, d)
    IN  [n |-> n \div g, d |-> d \div g]
FracAdd(a, b) == Frac(a.n * b.d + b.n * a.d, a.d * b.d)

RECURSIVE Pow2(_)
Pow2(k) == IF k = 0 THEN 1 ELSE 2 * Pow2(k - 1)

RECURSIVE Pow2Mod(_, _)
\* 2^k mod m
Pow2Mod(k, m) == IF k = 0 THEN 1 % m ELSE (2 * Pow2Mod(k - 1, m)) % m

RECURSIVE Exponent(_, _)
\* floor(log2(n / d)), n > 0
Exponent(n, d) ==
    IF n >= 2 * d THEN Exponent(n, 2 * d) + 1
    ELSE IF n < d THEN Exponent(2 * n, d) - 1
    ELSE 0

\* a double has 53 significant bits
HalfUlp(n, d) == 53 - Exponent(n, d)

\* u * 2^k
FracShift(u, k) ==
    IF k >= 0 THEN Frac(u.n * Pow2(k), u.d) ELSE Frac(u.n, u.d * Pow2(-k))

\* Round to nearest, ties to even: the double nearest to R + u * 2^-t, for
\* a fraction R > 0 and a term u * 2^-t of the size of a rounding error.
\* The doubles around R lie 2^-sc apart (below a power of two they lie
\* twice as close).  Counted in that distance, R is a whole number, of the
\* parity computed below, plus rho/R.d.
Round(R, u, t) ==
    LET s == HalfUlp(R.n, R.d) - 1
        k == Exponent(R.n, R.d)
        pow2 == IF k >= 0 THEN R.n = R.d * Pow2(k) ELSE R.n * Pow2(-k) = R.d
        below == pow2 /\ u.n < 0
        sc == IF below THEN s + 1 ELSE s
        rho == ((R.n % R.d) * Pow2Mod(sc, R.d)) % R.d
        rho2 == ((R.n % (2 * R.d)) * Pow2Mod(sc, 2 * R.d)) % (2 * R.d)
        parity == (rho2 - rho) \div R.d
        tau == IF u.n = 0 THEN Frac(0, 1) ELSE FracShift(u, sc - t)
        g == FracAdd(Frac(rho, R.d), tau)
        j == g.n \div g.d
        fr == g.n - j * g.d
        up == \/ 2 * fr > g.d
              \/ 2 * fr = g.d /\ (parity + j) % 2 = 1
        r == IF up THEN j + 1 ELSE j
    IN  [n |-> R.n, d |-> R.d,
         err |-> IF below THEN r * R.d - rho ELSE 2 * (r * R.d - rho)]

\* float(k) of an integer k
RatInt(k) == [n |-> k, d |-> 1, err |-> 0]

\* n / d of two integers, and the float a literal such as 0.9 denotes
Rat(n, d) == IF n = 0 THEN RatInt(0) ELSE Round(Frac(n, d), Frac(0, 1), 0)

\* a + b
RatAdd(a, b) ==
    IF a.n = 0 THEN b
    ELSE IF b.n = 0 THEN a
    ELSE LET ta == HalfUlp(a.n, a.d)
             tb == HalfUlp(b.n, b.d)
             t == IF ta >= tb THEN ta ELSE tb
         IN  Round(FracAdd(Frac(a.n, a.d), Frac(b.n, b.d)),
                   FracAdd(FracShift(Frac(a.err, a.d), t - ta),
                           FracShift(Frac(b.err, b.d), t - tb)),
                   t)

\* a * k for an integer k > 0
RatTimes(a, k) ==
    IF a.n = 0 THEN RatInt(0)
    ELSE Round(Frac(a.n * k, a.d), Frac(a.err * k, a.d), HalfUlp(a.n, a.d))

\* a / k for an integer k > 0
RatOver(a, k) ==
    IF a.n = 0 THEN RatInt(0)
    ELSE Round(Frac(a.n, a.d * k), Frac(a.err, a.d * k), HalfUlp(a.n, a.d))

\* a >= b: floats on different fractions are ordered as their fractions
RatGE(a, b) ==
    \/ a.n * b.d > b.n * a.d
    \/ a.n * b.d = b.n * a.d /\ a.err >= b.err
RatLE(a, b) == RatGE(b, a)
RatMin(a, b) == IF RatLE(a, b) THEN a ELSE b

\* (correct / total) * 100
Percent(correct, total) == RatTimes(Rat(correct, total), 100)

\* --------------------------------------------------- Python string values
\* A string is a sequence of one-character strings; a request value is a
\* string or a boolean.
StrVal(s) == [kind |-> "str", s |-> s, b |-> FALSE]
BoolVal(b) == [kind |-> "bool", s |-> <<>>, b |-> b]

LowerChar(c) ==
    CASE c = "A" -> "a"
      [] c = "B" -> "b"
      [] c = "T" -> "t"
      [] c = "F" -> "f"
      [] OTHER -> c

PyLower(s) == [i \in 1..Len(s) |-> LowerChar(s[i])]

RECURSIVE LStrip(_)
LStrip(s) == IF s # <<>> /\ Head(s) = " " THEN LStrip(Tail(s)) ELSE s

RECURSIVE RStrip(_)
RStrip(s) ==
    IF s # <<>> /\ s[Len(s)] = " " THEN RStrip(SubSeq(s, 1, Len(s) - 1)) ELSE s

PyStrip(s) == RStrip(LStrip(s))

\* str(v)
PyStr(v) ==
    IF v.kind = "str" THEN v.s
    ELSE IF v.b THEN <<"T", "r", "u", "e">> ELSE <<"F", "a", "l", "s", "e">>

\* bool(v)
PyBool(v) == IF v.kind = "str" THEN v.s # <<>> ELSE v.b

\* a in b
PyIn(a, b) ==
    \E i \in 1..(Len(b) + 1) :
        /\ i + Len(a) - 1 <= Len(b)
        /\ SubSeq(b, i, i + Len(a) - 1) = a

QuestionType == {"multiple_choice", "true_false", "fill_in_blank", "short_answer"}

_evaluate_answer(question_data, user_answer) ==
    LET correct_answer == question_data.correct_answer
        question_type == question_data.question_type
        user_answer_clean == PyLower(PyStrip(PyStr(user_answer)))
        correct_answer_clean == PyLower(PyStrip(PyStr(correct_answer)))
    IN  IF question_type = "multiple_choice"
          THEN user_answer_clean = correct_answer_clean
        ELSE IF question_type = "true_false"
          THEN PyBool(user_answer) = PyBool(correct_answer)
        ELSE IF question_type = "fill_in_blank"
          THEN user_answer_clean = correct_answer_clean
        ELSE IF question_type = "short_answer"
          THEN \/ PyIn(user_answer_clean, correct_answer_clean)
               \/ PyIn(correct_answer_clean, user_answer_clean)
        ELSE FALSE

\* ------------------------------------------------ the question generator
\* The injected generator returns a list of 0..num_questions questions with
\* distinct ids; question i of a list is entry i of this bank.
QuestionBank(i) ==
    CASE i % 4 = 1 -> [id |-> i, question_type |-> "multiple_choice",
                       correct_answer |-> StrVal(<<"A">>)]
      [] i % 4 = 2 -> [id |-> i, question_type |-> "short_answer",
                       correct_answer |-> StrVal(<<"a", "b">>)]
      [] i % 4 = 3 -> [id |-> i, question_type |-> "true_false",
                       correct_answer |-> StrVal(<<"F", "a", "l", "s", "e">>)]
      [] OTHER     -> [id |-> i, question_type |-> "fill_in_blank",
                       correct_answer |-> StrVal(<<"b">>)]

generate_quiz(n) == [i \in 1..n |-> QuestionBank(i)]

UserAnswers ==
    { StrVal(<<" ", "a">>), StrVal(<<"b">>), StrVal(<<>>), BoolVal(FALSE) }

\* ------------------------------------------------------------- the rows
NoDate == [set |-> FALSE, at |-> 0]
Date(d) == [set |-> TRUE, at |-> d]

\* Quiz(...) as create_quiz fills it; is_active keeps its default True.
Quiz(topic, difficulty_level, total_questions, passing_score) ==
    [topic |-> topic, difficulty_level |-> difficulty_level,
     total_questions |-> total_questions, passing_score |-> passing_score,
     is_active |-> TRUE]

\* QuizAnalytics(quiz_id=...) after its INSERT applied the column defaults.
QuizAnalytics(quiz_id) ==
    [quiz_id |-> quiz_id, total_attempts |-> 0, total_completions |-> 0,
     completion_rate |-> RatInt(0), average_score |-> RatInt(0)]

\* QuizSession(...) after its INSERT applied the column defaults.
QuizSession(quiz_id, user_id, questions) ==
    [quiz_id |-> quiz_id, user_id |-> user_id, status |-> "in_progress",
     total_questions |-> Len(questions), answered_questions |-> 0,
     correct_answers |-> 0, score |-> RatInt(0), passed |-> FALSE,
     current_question |-> 0, questions_data |-> questions,
     completed_at |-> NoDate]

UserResponse(session_id, question_id, is_correct) ==
    [session_id |-> session_id, question_id |-> question_id,
     is_correct |-> is_correct]

\* A stored UserProgress row holding the column defaults.
UserProgress(user_id, topic) ==
    [user_id |-> user_id, topic |-> topic,
     total_quizzes_taken |-> 0, total_questions_answered |-> 0,
     correct_answers |-> 0, average_score |-> RatInt(0),
     mastery_level |-> "novice", mastery_score |-> RatInt(0),
     suggested_difficulty |-> "beginner", next_review_date |-> NoDate,
     spaced_repetition_interval |-> 1]

\* ------------------------------------------------------------- the state
VARIABLES
    quizzes,      \* table quizzes: row i has id i
    analytics,    \* table quiz_analytics, in insertion order
    sessions,     \* table quiz_sessions: row i has id i
    responses,    \* table user_responses, a bag of rows
    progress,     \* table user_progress, in insertion order
    applied,      \* session id -> number of committed progress updates from it
    pc,           \* handler -> where its current call stands
    loc,          \* handler -> its request and its SQLAlchemy session's objects
    now,          \* the clock datetime.utcnow() reads, in moments
    reschedulings, \* update_spaced_repetition requests received so far
    out           \* the last call on the analytics side that returned: the
                  \* request, the row it loaded and the list of what it
                  \* returned (None: empty)

vars == <<quizzes, analytics, sessions, responses, progress, applied, pc, loc,
          now, reschedulings, out>>
db == <<quizzes, analytics, sessions, responses, progress>>

\* timedelta(days=days), in moments of the clock
timedelta(days) == days * MomentsPerDay

\* no LearningAnalyticsService call has been made
NoCall == [op |-> "none"]

IdleLoc ==
    [session_id |-> 0, question_id |-> 0,
     is_correct |-> FALSE, quiz_id |-> 0,
     user_id |-> NoUser, num_questions |-> 0, questions |-> <<>>,
     response |-> Null,
     session0 |-> Null, session |-> Null,
     progress_idx |-> 0, progress0 |-> Null, progress |-> Null,
     analytics_idx |-> 0, analytics0 |-> Null, analytics |-> Null,
     committed |-> FALSE, result |-> Null,
     seen_status |-> "none", seen_response |-> FALSE, completes |-> FALSE,
     call |-> NoCall]

\* Has (session_id, question_id) a stored response?  (read by the
\* properties, not by the handlers)
ResponseCount(session_id, question_id) ==
    CopiesIn(UserResponse(session_id, question_id, TRUE), responses)
    + CopiesIn(UserResponse(session_id, question_id, FALSE), responses)

\* ------------------------------------------------------- unit-of-work
\* The UPDATE a flush emits for a loaded row sets the attributes whose value
\* differs from the loaded one, and leaves the other columns as stored.
\* An UPDATE that writes every column of the object, changed or not.
WriteChangedAll(stored, loaded, current) == current

WriteChanged(stored, loaded, current) ==
    [f \in DOMAIN stored |->
        IF current[f] # loaded[f] THEN current[f] ELSE stored[f]]

FlushResponses(l) ==
    IF l.response = Null THEN responses
    ELSE responses (+) SetToBag({l.response})

FlushSessions(l) ==
    IF l.session = Null THEN sessions
    ELSE [sessions EXCEPT ![l.session_id] =
              WriteChanged(@, l.session0, l.session)]

\* A flush that leaves the pending user_progress update out.
FlushProgressNone(l) == progress

\* A progress object that was added is inserted, a loaded one is updated: an
\* attribute that was assigned the value it was loaded with, next_review_date
\* included, is not in the UPDATE.
FlushProgress(l) ==
    IF l.progress = Null THEN progress
    ELSE IF l.progress_idx = 0 THEN Append(progress, l.progress)
    ELSE [progress EXCEPT ![l.progress_idx] =
              WriteChanged(@, l.progress0, l.progress)]

FlushAnalytics(l) ==
    IF l.analytics = Null THEN analytics
    ELSE [analytics EXCEPT ![l.analytics_idx] =
              WriteChanged(@, l.analytics0, l.analytics)]

FlushApplied(l) ==
    IF l.progress = Null THEN applied
    ELSE [applied EXCEPT ![l.session_id] = @ + 1]

\* except ...: self.db.rollback(); raise
Raise(h, l, error) ==
    /\ pc' = [pc EXCEPT ![h] = "done"]
    /\ loc' = [loc EXCEPT ![h] =
                  [IdleLoc EXCEPT !.session_id = l.session_id,
                                  !.question_id = l.question_id,
                                  !.committed = l.committed,
                                  !.seen_status = l.seen_status,
                                  !.seen_response = l.seen_response,
                                  !.completes = l.completes,
                                  !.call = l.call,
                                  !.result = [ok |-> FALSE, error |-> error,
                                              is_correct |-> FALSE,
                                              session_completed |-> FALSE]]]
    /\ UNCHANGED <<quizzes, analytics, sessions, responses, progress,
                   applied, reschedulings, now>>

\* ------------------------------------------------------ progress tracking
_calculate_mastery_level(p) ==
    IF RatGE(p.average_score, RatInt(90)) /\ p.total_quizzes_taken >= 5
      THEN "expert"
    ELSE IF RatGE(p.average_score, RatInt(80)) /\ p.total_quizzes_taken >= 3
      THEN "proficient"
    ELSE IF RatGE(p.average_score, RatInt(60)) /\ p.total_quizzes_taken >= 2
      THEN "learning"
    ELSE "novice"

\* min((base_score + experience_bonus) * 1.0, 100)
_calculate_mastery_score(p) ==
    LET base_score == p.average_score
        experience_bonus ==
            IF p.total_quizzes_taken * 2 <= 20
            THEN p.total_quizzes_taken * 2 ELSE 20
    IN  RatMin(RatTimes(RatAdd(base_score, RatInt(experience_bonus)), 1),
               RatInt(100))

_suggest_next_difficulty(quiz, score) ==
    LET current_difficulty == quiz.difficulty_level
    IN  IF RatGE(score, RatInt(85))
          THEN IF current_difficulty = "beginner" THEN "intermediate"
               ELSE IF current_difficulty = "intermediate" THEN "advanced"
               ELSE "advanced"
        ELSE IF RatLE(score, RatInt(60))
          THEN IF current_difficulty = "advanced" THEN "intermediate"
               ELSE IF current_difficulty = "intermediate" THEN "beginner"
               ELSE "beginner"
        ELSE current_difficulty

Min(a, b) == IF a <= b THEN a ELSE b
Max(a, b) == IF a >= b THEN a ELSE b

\* at is what datetime.utcnow() returns on line 474
_update_spaced_repetition(p, score, at) ==
    LET interval ==
            IF RatGE(score, RatInt(80))
            THEN Min(p.spaced_repetition_interval * 2, 30)
            ELSE Max(p.spaced_repetition_interval \div 2, 1)
    IN  [p EXCEPT !.spaced_repetition_interval = interval,
                  !.next_review_date = Date(at + timedelta(interval))]

\* _update_user_progress on a progress row the query found; at is the clock
\* reading of its rescheduling
_update_user_progress(p, session, quiz, at) ==
    LET p1 == [p EXCEPT
                 !.total_quizzes_taken = @ + 1,
                 !.total_questions_answered = @ + session.total_questions,
                 !.correct_answers = @ + session.correct_answers]
        p2 == [p1 EXCEPT !.average_score =
                 Percent(p1.correct_answers, p1.total_questions_answered)]
        p3 == [p2 EXCEPT !.mastery_level = _calculate_mastery_level(p2)]
        p4 == [p3 EXCEPT !.mastery_score = _calculate_mastery_score(p3)]
        p5 == [p4 EXCEPT !.suggested_difficulty =
                 _suggest_next_difficulty(quiz, session.score)]
    IN  _update_spaced_repetition(p5, session.score, at)

\* The increment as if UserProgress(...) had applied the column defaults.
NewProgressIncrementDefaults == ""

\* progress.total_quizzes_taken += 1 on a UserProgress(...) that was only
\* added to the session: its counters are still None, the += raises.
NewProgressIncrement == "TypeError"

\* ------------------------------------------------------------- queries
get_quiz_session(session_id) ==
    IF session_id \in DOMAIN sessions THEN sessions[session_id] ELSE Null

FindQuestion(session, question_id) ==
    LET hits == {i \in DOMAIN session.questions_data :
                    session.questions_data[i].id = question_id}
    IN  IF hits = {} THEN Null
        ELSE session.questions_data[CHOOSE i \in hits : \A j \in hits : i <= j]

\* submit_answer without lines 268-277.
ExistingResponseNever(session_id, question_id) == FALSE

\* query(UserResponse).filter(session_id, question_id).first(): with
\* autoflush off it sees the committed rows only
ExistingResponse(session_id, question_id) ==
    \E r \in BagToSet(responses) :
        r.session_id = session_id /\ r.question_id = question_id

\* The query filtered by the topic alone: the first row of the topic,
\* whichever user it belongs to.
FirstProgressAnyUser(user_id, topic) ==
    LET hits == {i \in DOMAIN progress : progress[i].topic = topic}
    IN  IF hits = {} THEN 0 ELSE CHOOSE i \in hits : \A j \in hits : i <= j

\* query(UserProgress).filter(user_id, topic).first(): index of the row,
\* 0 if none
FirstProgress(user_id, topic) ==
    LET hits == {i \in DOMAIN progress :
                    progress[i].user_id = user_id /\ progress[i].topic = topic}
    IN  IF hits = {} THEN 0 ELSE CHOOSE i \in hits : \A j \in hits : i <= j

\* query(QuizAnalytics).filter(quiz_id).first(): index of the row, 0 if none
FirstAnalytics(quiz_id) ==
    LET hits == {i \in DOMAIN analytics : analytics[i].quiz_id = quiz_id}
    IN  IF hits = {} THEN 0 ELSE CHOOSE i \in hits : \A j \in hits : i <= j

\* The query with a status value that no row carries.
CompletedSessionsNone(quiz_id) ==
    {i \in DOMAIN sessions :
        sessions[i].quiz_id = quiz_id /\ sessions[i].status = "complete"}

\* query(QuizSession).filter(quiz_id, status == completed).all(): the
\* committed rows; the caller's own unflushed status change is not among them
CompletedSessions(quiz_id) ==
    {i \in DOMAIN sessions :
        sessions[i].quiz_id = quiz_id /\ sessions[i].status = "completed"}

RECURSIVE SumScores(_, _)
\* sum(s.score for s in completed_sessions), added up from 0 in the order of
\* the rows: a returned row that is the caller's own session is the object
\* it already holds, with its score
SumScores(S, l) ==
    IF S = {} THEN RatInt(0)
    ELSE LET i == CHOOSE x \in S : \A y \in S : y <= x
             score == IF i = l.session_id THEN l.session.score
                      ELSE sessions[i].score
         IN  RatAdd(SumScores(S \ {i}, l), score)

\* total_score / len(completed_sessions)
AverageScore(S, l) == RatOver(SumScores(S, l), Cardinality(S))

\* A handler whose call has ended returns before anything else happens:
\* returning touches nothing that another handler can see.
At(h, label) ==
    /\ pc[h] = label
    /\ \A g \in Handlers : pc[g] # "done"

\* A request is served by the first handler that is free.
Takes(h) ==
    /\ At(h, "idle")
    /\ \A g \in Handlers : pc[g] = "idle" => ~(g < h)

\* ------------------------------------------------------ where a run starts
\* Rows of quiz_sessions that hold questions.  start_quiz_session cannot
\* store such a row (see StartQuizSession); these are rows that were put
\* into the table directly: session 1 has no user, session 2 is u1's; one
\* of them has one question and the other as many as the quiz asks for.
StoredSessions ==
    {<<QuizSession(1, NoUser, generate_quiz(n)),
       QuizSession(1, "u1", generate_quiz(MaxQuestions + 1 - n))>> :
        n \in {1, MaxQuestions}}

\* A stored session of the quiz with question 1 open and the other
\* total - 1 questions answered, correct of them correctly.
OpenSession(quiz_id, user_id, total, correct) ==
    [QuizSession(quiz_id, user_id, generate_quiz(total)) EXCEPT
        !.answered_questions = total - 1,
        !.correct_answers = correct,
        !.current_question = total - 1]

\* the user_responses rows of session s as OpenSession(_, _, total, correct)
\* leaves them: questions 2 .. correct + 1 are the correct ones
OpenResponses(s, total, correct) ==
    {UserResponse(s, q, q <= correct + 1) : q \in 2..total}

\* every handler is free, no analytics call has been made
Idle ==
    /\ applied = [s \in 1..MaxSessions |-> 0]
    /\ reschedulings = 0
    /\ pc = [h \in Handlers |-> "idle"]
    /\ loc = [h \in Handlers |-> IdleLoc]
    /\ out = NoCall

\* The tables of quizzes and sessions at the start are either empty, as
\* create_tables() leaves them, or hold a quiz, with or without its
\* quiz_analytics row, and the stored sessions.
Init ==
    /\ now = UtcNow
    /\ \/ /\ quizzes = <<>>
          /\ analytics = <<>>
          /\ sessions = <<>>
       \/ /\ quizzes = <<Quiz("t1", "intermediate", MaxQuestions, 50)>>
          /\ analytics \in {<<>>, <<QuizAnalytics(1)>>}
          /\ sessions \in StoredSessions
    /\ responses = EmptyBag
    /\ progress = <<>>
    /\ Idle

\* A user_progress table that already holds, for every user and topic, a row
\* with the column defaults.  The service never stores a new row itself (see
\* NewProgressIncrement), so its updates of existing rows can be observed
\* from such a table only.
SeedKeys == {<<u, t>> : u \in Users \ {NoUser}, t \in Topics}

\* the rows of the keys K, one after the other
RECURSIVE SeedRows(_)
SeedRows(K) ==
    IF K = {} THEN <<>>
    ELSE LET k == CHOOSE x \in K : TRUE
         IN  <<UserProgress(k[1], k[2])>> \o SeedRows(K \ {k})

\* Stored rows: the progress rows, a quiz that has no quiz_analytics row
\* yet, and two sessions of u1 with one question each.
InitSeeded ==
    /\ now = UtcNow
    /\ quizzes = <<Quiz("t1", "intermediate", MaxQuestions, 50)>>
    /\ analytics = <<>>
    /\ sessions = <<QuizSession(1, "u1", generate_quiz(1)),
                    QuizSession(1, "u1", generate_quiz(1))>>
    /\ responses = EmptyBag
    /\ progress = SeedRows(SeedKeys)
    /\ Idle

\* ---------------------------------------------------------- create_quiz
\* self.db.add(quiz); self.db.commit()
CreateQuiz(h, topic, difficulty_level, passing_score) ==
    /\ Takes(h)
    /\ Len(quizzes) < MaxQuizzes
    /\ quizzes' = Append(quizzes,
                         Quiz(topic, difficulty_level, MaxQuestions, passing_score))
    /\ pc' = [pc EXCEPT ![h] = "init_analytics"]
    /\ loc' = [loc EXCEPT ![h] = [IdleLoc EXCEPT !.quiz_id = Len(quizzes) + 1]]
    /\ UNCHANGED <<analytics, sessions, responses, progress, applied,
                   reschedulings, now>>

\* await self._initialize_quiz_analytics(quiz.id), the second commit
CreateQuizAnalytics(h) ==
    /\ At(h, "init_analytics")
    /\ analytics' = Append(analytics, QuizAnalytics(loc[h].quiz_id))
    /\ pc' = [pc EXCEPT ![h] = "idle"]
    /\ loc' = [loc EXCEPT ![h] = IdleLoc]
    /\ UNCHANGED <<quizzes, sessions, responses, progress, applied,
                   reschedulings, now>>

\* --------------------------------------------------- start_quiz_session
\* lines 186-201: the SELECT of the quiz (get_quiz).  Without the quiz, or
\* with one that is not active, the call raises ValueError, rolls back and
\* re-raises; no code of the services clears is_active.  With the quiz the
\* call awaits the generator (line 204), which searches the vector store
\* over the network: the call is suspended and other requests are served.
StartQuizSession(h, quiz_id, user_id) ==
    /\ Takes(h)
    /\ Len(sessions)
          + Cardinality({g \in Handlers :
                            pc[g] \in {"generate_quiz", "add_session"}})
          < MaxSessions
    /\ LET l == [IdleLoc EXCEPT
                   !.call = [op |-> "start_quiz_session", quiz_id |-> quiz_id,
                             user_id |-> user_id],
                   !.quiz_id = quiz_id,
                   !.user_id = user_id]
       IN  IF quiz_id \notin DOMAIN quizzes
             THEN Raise(h, l, "Quiz not found")
           ELSE IF ~quizzes[quiz_id].is_active
             THEN Raise(h, l, "Quiz is not active")
           ELSE
             /\ loc' = [loc EXCEPT ![h] =
                   [l EXCEPT !.num_questions =
                                 quizzes[quiz_id].total_questions]]
             /\ pc' = [pc EXCEPT ![h] = "generate_quiz"]
             /\ UNCHANGED <<quizzes, analytics, sessions, responses, progress,
                            applied, reschedulings, now>>

\* line 204, the generator found no content: it raises ValueError
\* (quiz_generator.py, line 117), the call rolls back and re-raises
StartQuizSessionNoContent(h) ==
    /\ At(h, "generate_quiz")
    /\ Raise(h, loc[h], "No relevant content found for quiz generation")

\* lines 204-215, the generator returns n questions, as many as asked for
\* or fewer (its validation drops questions), and the session object is
\* built; questions_data is [q.dict() for q in questions]
StartQuizSessionGenerate(h, n) ==
    /\ At(h, "generate_quiz")
    /\ n <= loc[h].num_questions
    /\ loc' = [loc EXCEPT ![h] = [@ EXCEPT !.questions = generate_quiz(n)]]
    /\ pc' = [pc EXCEPT ![h] = "add_session"]
    /\ UNCHANGED <<quizzes, analytics, sessions, responses, progress,
                   applied, reschedulings, now>>

\* lines 217-218: self.db.add(session); self.db.commit().  Each question
\* dict holds created_at, a datetime, and the engine of database.py
\* serialises the JSON column with json.dumps: with one question or more
\* the flush fails on the TypeError of json.dumps, the commit raises it as
\* StatementError, the call rolls back and re-raises.  Only an empty list
\* is stored.
StartQuizSessionCommit(h) ==
    /\ At(h, "add_session")
    /\ LET l == loc[h] IN
       IF l.questions # <<>>
         THEN Raise(h, l, "StatementError")
       ELSE
         /\ sessions' = Append(sessions,
                               QuizSession(l.quiz_id, l.user_id, l.questions))
         /\ loc' = [loc EXCEPT ![h] =
               [l EXCEPT !.session_id = Len(sessions) + 1,
                         !.committed = TRUE]]
         /\ pc' = [pc EXCEPT ![h] = "refresh_session"]
         /\ UNCHANGED <<quizzes, analytics, responses, progress, applied,
                        reschedulings, now>>

\* lines 219-222: self.db.refresh(session), a SELECT of the row as it is
\* stored by now, and the object is returned
StartQuizSessionRefresh(h) ==
    /\ At(h, "refresh_session")
    /\ LET l == loc[h] IN
       loc' = [loc EXCEPT ![h] =
             [IdleLoc EXCEPT !.call = l.call,
                             !.session_id = l.session_id,
                             !.committed = TRUE,
                             !.session = sessions[l.session_id],
                             !.result = [ok |-> TRUE, error |-> "",
                                         is_correct |-> FALSE,
                                         session_completed |-> FALSE]]]
    /\ pc' = [pc EXCEPT ![h] = "done"]
    /\ UNCHANGED <<quizzes, analytics, sessions, responses, progress,
                   applied, reschedulings, now>>

\* the steps of a start_quiz_session call after its first one
StartQuizSessionStep(h) ==
    \/ StartQuizSessionNoContent(h)
    \/ \E n \in 0..MaxQuestions : StartQuizSessionGenerate(h, n)
    \/ StartQuizSessionCommit(h)
    \/ StartQuizSessionRefresh(h)

\* --------------------------------------------------------- submit_answer
NotInProgress == "Quiz session is not in progress"
AlreadyAnswered == "Question already answered"

\* the result of line 313, read from the session object that the commit
\* expired and the read reloads
Ok(l, session) ==
    [ok |-> TRUE, error |-> "", is_correct |-> l.is_correct,
     session_completed |-> (session.status = "completed")]

\* _complete_quiz_session up to the user-progress update (lines 341-348)
CompleteSession(session) ==
    LET score == Percent(session.correct_answers, session.total_questions)
        quiz == quizzes[session.quiz_id]
    IN  [session EXCEPT !.status = "completed",
                        !.completed_at = Date(now),
                        !.score = score,
                        !.passed = RatGE(score, RatInt(quiz.passing_score))]

\* Lines 301-305 run twice for one answer.
CountAnswerTwice(session, is_correct) ==
    [session EXCEPT !.answered_questions = @ + 2,
                    !.correct_answers = IF is_correct THEN @ + 2 ELSE @,
                    !.current_question = @ + 2]

\* Lines 301-305 keeping a running score on the session as well.
CountAnswerScoring(session, is_correct) ==
    LET correct == IF is_correct THEN session.correct_answers + 1
                   ELSE session.correct_answers
        score == Percent(correct, session.total_questions)
    IN  [session EXCEPT
            !.answered_questions = @ + 1,
            !.correct_answers = correct,
            !.current_question = @ + 1,
            !.score = score,
            !.passed = RatGE(score,
                             RatInt(quizzes[session.quiz_id].passing_score))]

\* lines 301-305: the counters of the loaded session object
CountAnswer(session, is_correct) ==
    [session EXCEPT !.answered_questions = @ + 1,
                    !.correct_answers = IF is_correct THEN @ + 1 ELSE @,
                    !.current_question = @ + 1]

\* submit_answer without the status check of lines 255-256.
ValidationErrorNoStatus(session_id, question_id) ==
    LET session == get_quiz_session(session_id)
    IN  IF session = Null
          THEN "Quiz session not found"
        ELSE IF FindQuestion(session, question_id) = Null
          THEN "Question not found in session"
        ELSE ""

\* lines 250-266: what submit_answer raises on the session it loaded ("" when
\* the session is in progress and holds the question)
ValidationError(session_id, question_id) ==
    LET session == get_quiz_session(session_id)
    IN  IF session = Null
          THEN "Quiz session not found"
        ELSE IF session.status # "in_progress"
          THEN "Quiz session is not in progress"
        ELSE IF FindQuestion(session, question_id) = Null
          THEN "Question not found in session"
        ELSE ""

\* lines 250-266: the SELECT of get_quiz_session, the status check and the
\* search of the question in the snapshot.  is_correct is what
\* _evaluate_answer will make of the request and the loaded question
\* (line 280); it reads nothing else.
SubmitAnswer(h, session_id, question_id, user_answer) ==
    /\ Takes(h)
    /\ LET session == get_quiz_session(session_id)
           l == [IdleLoc EXCEPT
                   !.session_id = session_id,
                   !.question_id = question_id,
                   !.seen_status = IF session_id \in DOMAIN sessions
                                   THEN sessions[session_id].status
                                   ELSE "none",
                   !.seen_response = ResponseCount(session_id, question_id) > 0]
       IN  IF ValidationError(session_id, question_id) # ""
             THEN Raise(h, l, ValidationError(session_id, question_id))
           ELSE
             /\ loc' = [loc EXCEPT ![h] =
                   [l EXCEPT
                      !.quiz_id = session.quiz_id,
                      !.is_correct =
                          _evaluate_answer(FindQuestion(session, question_id),
                                           user_answer),
                      !.session0 = session,
                      !.session = session]]
             /\ pc' = [pc EXCEPT ![h] = "existing_response"]
             /\ UNCHANGED <<quizzes, analytics, sessions, responses, progress,
                            applied, reschedulings, now>>

\* lines 268-309: the SELECT of existing_response, then the response is
\* added and counted on the session object and, with the last answer, the
\* session object is completed, which reads the clock (line 342); nothing
\* is written to the database yet
SubmitAnswerExistingResponse(h) ==
    /\ At(h, "existing_response")
    /\ LET l == loc[h] IN
       IF ExistingResponse(l.session_id, l.question_id)
         THEN Raise(h, l, AlreadyAnswered)
       ELSE
         LET counted == CountAnswer(l.session, l.is_correct)
             completes == counted.answered_questions >= counted.total_questions
         IN  /\ loc' = [loc EXCEPT ![h] =
                   [l EXCEPT
                      !.completes = completes,
                      !.response = UserResponse(l.session_id, l.question_id,
                                                l.is_correct),
                      !.session = IF completes THEN CompleteSession(counted)
                                  ELSE counted]]
             /\ pc' = [pc EXCEPT ![h] =
                   IF ~completes THEN "commit"
                   ELSE IF l.session.user_id # NoUser THEN "update_progress"
                   ELSE "update_analytics"]
             /\ IF completes
                  THEN now < timedelta(MaxDays) /\ now' = now + 1
                  ELSE UNCHANGED now
             /\ UNCHANGED <<quizzes, analytics, sessions, responses, progress,
                            applied, reschedulings>>

\* _update_user_progress (lines 359-398): the SELECT of the progress row and
\* the update of the object, which reads the clock (line 474)
SubmitAnswerUpdateProgress(h) ==
    /\ At(h, "update_progress")
    /\ LET l == loc[h]
           quiz == quizzes[l.quiz_id]
           idx == FirstProgress(l.session.user_id, quiz.topic)
           found == IF idx = 0
                    THEN UserProgress(l.session.user_id, quiz.topic)
                    ELSE progress[idx]
       IN  IF idx = 0 /\ NewProgressIncrement # ""
             THEN Raise(h, l, NewProgressIncrement)
           ELSE
             /\ loc' = [loc EXCEPT ![h] =
                   [l EXCEPT !.progress_idx = idx,
                             !.progress0 = IF idx = 0 THEN Null ELSE found,
                             !.progress = _update_user_progress(
                                              found, l.session, quiz, now)]]
             /\ pc' = [pc EXCEPT ![h] = "update_analytics"]
             /\ now < timedelta(MaxDays)
             /\ now' = now + 1
             /\ UNCHANGED <<quizzes, analytics, sessions, responses, progress,
                            applied, reschedulings>>

\* lines 496-502 of _update_quiz_analytics on the analytics object
CountAttempt(row, session) ==
    LET attempts == row.total_attempts + 1
        completions == IF session.status = "completed"
                       THEN row.total_completions + 1
                       ELSE row.total_completions
    IN  [row EXCEPT !.total_attempts = attempts,
                    !.total_completions = completions,
                    !.completion_rate = Percent(completions, attempts)]

\* the analytics row at idx is loaded and counts the attempt (lines 496-502)
LoadAnalytics(h, l, idx) ==
    /\ loc' = [loc EXCEPT ![h] =
          [l EXCEPT !.analytics_idx = idx,
                    !.analytics0 = analytics[idx],
                    !.analytics = CountAttempt(analytics[idx], l.session)]]
    /\ pc' = [pc EXCEPT ![h] =
          IF l.session.status = "completed" THEN "completed_sessions"
          ELSE "commit"]
    /\ UNCHANGED <<quizzes, analytics, sessions, responses, progress,
                   applied, reschedulings, now>>

\* _update_quiz_analytics, lines 486-502: the SELECT of the analytics row of
\* the quiz
SubmitAnswerUpdateAnalytics(h) ==
    /\ At(h, "update_analytics")
    /\ LET l == loc[h]
           idx == FirstAnalytics(l.quiz_id)
       IN  IF idx = 0
             THEN /\ pc' = [pc EXCEPT ![h] = "insert_analytics"]
                  /\ UNCHANGED <<quizzes, analytics, sessions, responses,
                                 progress, applied, loc, reschedulings, now>>
           ELSE LoadAnalytics(h, l, idx)

\* line 491, _initialize_quiz_analytics: the row is added and committed;
\* that commit flushes and commits everything this call has pending, and
\* expires the objects of the session
SubmitAnswerInitializeAnalytics(h) ==
    /\ At(h, "insert_analytics")
    /\ LET l == loc[h] IN
       /\ analytics' = Append(analytics, QuizAnalytics(l.quiz_id))
       /\ responses' = FlushResponses(l)
       /\ sessions' = FlushSessions(l)
       /\ progress' = FlushProgress(l)
       /\ applied' = FlushApplied(l)
       /\ loc' = [loc EXCEPT ![h] =
             [l EXCEPT !.response = Null,
                       !.session0 = Null, !.session = Null,
                       !.progress_idx = 0,
                       !.progress0 = Null, !.progress = Null,
                       !.committed = TRUE]]
       /\ pc' = [pc EXCEPT ![h] = "reload_session"]
       /\ UNCHANGED <<quizzes, reschedulings, now>>

\* line 493: reading session.quiz_id reloads the expired session object
SubmitAnswerReloadSession(h) ==
    /\ At(h, "reload_session")
    /\ loc' = [loc EXCEPT ![h] =
          [@ EXCEPT !.session0 = sessions[loc[h].session_id],
                    !.session = sessions[loc[h].session_id]]]
    /\ pc' = [pc EXCEPT ![h] = "requery_analytics"]
    /\ UNCHANGED <<quizzes, analytics, sessions, responses, progress,
                   applied, reschedulings, now>>

\* lines 492-502: the analytics row is queried again
SubmitAnswerRequeryAnalytics(h) ==
    /\ At(h, "requery_analytics")
    /\ LoadAnalytics(h, loc[h], FirstAnalytics(loc[h].quiz_id))

\* lines 505-515: the SELECT of the completed sessions of the quiz and the
\* average of their scores
SubmitAnswerCompletedSessions(h) ==
    /\ At(h, "completed_sessions")
    /\ LET l == loc[h]
           completed_sessions == CompletedSessions(l.quiz_id)
       IN  IF completed_sessions = {}
             THEN Raise(h, l, "ZeroDivisionError")
           ELSE /\ loc' = [loc EXCEPT ![h] =
                      [l EXCEPT !.analytics =
                          [@ EXCEPT !.average_score =
                              AverageScore(completed_sessions, l)]]]
                /\ pc' = [pc EXCEPT ![h] = "commit"]
                /\ UNCHANGED <<quizzes, analytics, sessions, responses,
                               progress, applied, reschedulings, now>>

\* line 311: self.db.commit() flushes what is pending and expires the
\* objects
SubmitAnswerCommit(h) ==
    /\ At(h, "commit")
    /\ LET l == loc[h] IN
       /\ responses' = FlushResponses(l)
       /\ sessions' = FlushSessions(l)
       /\ progress' = FlushProgress(l)
       /\ applied' = FlushApplied(l)
       /\ analytics' = FlushAnalytics(l)
       /\ loc' = [loc EXCEPT ![h] =
             [l EXCEPT !.response = Null,
                       !.session0 = Null, !.session = Null,
                       !.progress_idx = 0,
                       !.progress0 = Null, !.progress = Null,
                       !.analytics_idx = 0,
                       !.analytics0 = Null, !.analytics = Null,
                       !.committed = TRUE]]
       /\ pc' = [pc EXCEPT ![h] = "result"]
       /\ UNCHANGED <<quizzes, reschedulings, now>>

\* lines 313-323: the result; reading session.answered_questions reloads
\* the session object
SubmitAnswerResult(h) ==
    /\ At(h, "result")
    /\ LET l == loc[h] IN
       loc' = [loc EXCEPT ![h] =
             [IdleLoc EXCEPT !.session_id = l.session_id,
                             !.question_id = l.question_id,
                             !.committed = TRUE,
                             !.seen_status = l.seen_status,
                             !.seen_response = l.seen_response,
                             !.completes = l.completes,
                             !.result = Ok(l, sessions[l.session_id])]]
    /\ pc' = [pc EXCEPT ![h] = "done"]
    /\ UNCHANGED <<quizzes, analytics, sessions, responses, progress,
                   applied, reschedulings, now>>

\* the handler returns (or re-raises) and its database session is closed
Return(h) ==
    /\ pc[h] = "done"
    /\ pc' = [pc EXCEPT ![h] = "idle"]
    /\ loc' = [loc EXCEPT ![h] = IdleLoc]
    /\ UNCHANGED <<quizzes, analytics, sessions, responses, progress,
                   applied, reschedulings, now>>

\* the steps of a submit_answer call after its first one
SubmitAnswerStep(h) ==
    \/ SubmitAnswerExistingResponse(h)
    \/ SubmitAnswerUpdateProgress(h)
    \/ SubmitAnswerUpdateAnalytics(h)
    \/ SubmitAnswerInitializeAnalytics(h)
    \/ SubmitAnswerReloadSession(h)
    \/ SubmitAnswerRequeryAnalytics(h)
    \/ SubmitAnswerCompletedSessions(h)
    \/ SubmitAnswerCommit(h)
    \/ SubmitAnswerResult(h)
    \/ Return(h)

QuizManagerNext ==
    \E h \in Handlers :
        \/ \E t \in Topics, d \in QuizDifficulties, ps \in PassingScores :
               CreateQuiz(h, t, d, ps)
        \/ CreateQuizAnalytics(h)
        \/ \E q \in 1..MaxQuizzes, u \in Users : StartQuizSession(h, q, u)
        \/ StartQuizSessionStep(h)
        \/ \E s \in 1..MaxSessions, q \in 1..MaxQuestions, a \in UserAnswers :
               SubmitAnswer(h, s, q, a)
        \/ SubmitAnswerStep(h)

Next ==
    /\ QuizManagerNext
    /\ now' <= UtcNow + MaxReadings
    /\ UNCHANGED out

Spec == Init /\ [][Next]_vars

\* submit_answer calls alone
SubmitNext ==
    /\ \E h \in Handlers :
          \/ \E s \in 1..MaxSessions, q \in 1..MaxQuestions, a \in UserAnswers :
                 SubmitAnswer(h, s, q, a)
          \/ SubmitAnswerStep(h)
    /\ now' <= UtcNow + MaxReadings
    /\ UNCHANGED out

\* the answers to the open question of a session: " a" is right, "b" is
\* wrong
SchedulerAnswers == {StrVal(<<" ", "a">>), StrVal(<<"b">>)}

\* submit_answer calls that answer the only question of a session, while
\* either session completes
SeededNext ==
    /\ \E h \in Handlers :
          \/ \E s \in 1..MaxSessions, a \in SchedulerAnswers :
                 SubmitAnswer(h, s, 1, a)
          \/ SubmitAnswerStep(h)
    /\ now' <= UtcNow + MaxSeededReadings
    /\ UNCHANGED out

SpecSeeded == InitSeeded /\ [][SeededNext]_vars


\* ------------------------------------------- LearningAnalyticsService
\* Calls of the analytics service, each on the database session of the
\* request that makes it, next to the submit_answer calls that complete a
\* session of the user.
MaxReschedulings == 2

\* performance_score of update_spaced_repetition requests
PerformanceScores == {50, 60, 79, 80}

\* progress.correct_answers / progress.total_questions_answered
\* if progress.total_questions_answered > 0 else 0
SuccessRate(p) ==
    IF p.total_questions_answered > 0
    THEN Rat(p.correct_answers, p.total_questions_answered)
    ELSE RatInt(0)

_get_repetition_level(interval_days) ==
    IF interval_days <= 1 THEN "level_1"
    ELSE IF interval_days <= 3 THEN "level_2"
    ELSE IF interval_days <= 7 THEN "level_3"
    ELSE IF interval_days <= 14 THEN "level_4"
    ELSE IF interval_days <= 30 THEN "level_5"
    ELSE "mastered"

SpacedRepetitionItem(p) ==
    [topic |-> p.topic, difficulty |-> p.suggested_difficulty,
     next_review |-> p.next_review_date,
     repetition_level |-> _get_repetition_level(p.spaced_repetition_interval),
     success_rate |-> SuccessRate(p),
     review_count |-> p.total_quizzes_taken]

\* Lines 291-310 with the halving not floored at one day.
update_spaced_repetitionNoFloor(p, performance_score) ==
    LET current_interval == p.spaced_repetition_interval
        new_interval ==
            IF RatGE(performance_score, RatInt(80))
              THEN Min(current_interval * 2, 90)
            ELSE IF RatGE(performance_score, RatInt(60))
              THEN current_interval
            ELSE current_interval \div 2
    IN  [p EXCEPT !.spaced_repetition_interval = new_interval,
                  !.next_review_date = Date(now + timedelta(new_interval))]

\* update_spaced_repetition, lines 291-310, on the row the query found
update_spaced_repetition(p, performance_score) ==
    LET current_interval == p.spaced_repetition_interval
        new_interval ==
            IF RatGE(performance_score, RatInt(80))
              THEN Min(current_interval * 2, 90)
            ELSE IF RatGE(performance_score, RatInt(60))
              THEN current_interval
            ELSE Max(current_interval \div 2, 1)
    IN  [p EXCEPT !.spaced_repetition_interval = new_interval,
                  !.next_review_date = Date(now + timedelta(new_interval))]

\* LearningAnalyticsService.update_spaced_repetition, lines 285-310: the
\* SELECT of the progress row; without a row the call returns None, with one
\* the object gets its new interval and its review date, which reads the
\* clock (line 309)
UpdateSpacedRepetition(h, user_id, topic, performance_score) ==
    /\ Takes(h)
    /\ reschedulings < MaxReschedulings
    /\ reschedulings' = reschedulings + 1
    /\ LET idx == FirstProgress(user_id, topic)
           call == [op |-> "update_spaced_repetition", user_id |-> user_id,
                    topic |-> topic, score |-> performance_score]
       IN  IF idx = 0
             THEN /\ out' = [call |-> call, before |-> Null, result |-> <<>>]
                  /\ UNCHANGED <<pc, loc, now>>
           ELSE /\ now < timedelta(MaxDays)
                /\ now' = now + 1
                /\ loc' = [loc EXCEPT ![h] =
                      [IdleLoc EXCEPT
                          !.call = call,
                          !.progress_idx = idx,
                          !.progress0 = progress[idx],
                          !.progress = update_spaced_repetition(
                                           progress[idx], performance_score)]]
                /\ pc' = [pc EXCEPT ![h] = "commit_repetition"]
                /\ UNCHANGED out
    /\ UNCHANGED <<quizzes, analytics, sessions, responses, progress, applied>>

\* line 312: self.db.commit() writes the attributes the call assigned
UpdateSpacedRepetitionCommit(h) ==
    /\ At(h, "commit_repetition")
    /\ progress' = FlushProgress(loc[h])
    /\ pc' = [pc EXCEPT ![h] = "return_repetition"]
    /\ UNCHANGED <<quizzes, analytics, sessions, responses, applied, loc, now,
                   out, reschedulings>>

\* lines 315-326: the item returned is read from the progress object that the
\* commit expired, so from the row as stored by now; repetition_level comes
\* from the interval the call computed
UpdateSpacedRepetitionReturn(h) ==
    /\ At(h, "return_repetition")
    /\ LET l == loc[h]
           stored == progress[l.progress_idx]
       IN  out' = [call |-> l.call, before |-> l.progress0,
                   result |-> <<[SpacedRepetitionItem(stored) EXCEPT
                                    !.repetition_level =
                                        _get_repetition_level(
                                            l.progress
                                             .spaced_repetition_interval)]>>]
    /\ pc' = [pc EXCEPT ![h] = "idle"]
    /\ loc' = [loc EXCEPT ![h] = IdleLoc]
    /\ UNCHANGED <<quizzes, analytics, sessions, responses, progress, applied,
                   now, reschedulings>>

\* the steps of an update_spaced_repetition call after its first one
UpdateSpacedRepetitionStep(h) ==
    \/ UpdateSpacedRepetitionCommit(h)
    \/ UpdateSpacedRepetitionReturn(h)

\* No read query of the analytics service has been answered so far.  The
\* queries write nothing, so a query returns after other queries what it
\* returns without them, and the runs followed end with their queries.
NoQueryYet ==
    IF out = NoCall THEN TRUE ELSE out.call.op = "update_spaced_repetition"

\* (total, correct) of the stored session of u1, which its last answer
\* completes with score 60 or 80, or with 50 or 75
SchedulerSessions == {<<5, 3>>, <<4, 2>>}

\* The row of u1: either untouched, or as the last of a series of
\* update_spaced_repetition calls left it a moment ago, with one of the
\* intervals such calls give a row that started with the default of one day.
RescheduledRows ==
    {UserProgress("u1", "t1")} \cup
    {[UserProgress("u1", "t1") EXCEPT
         !.spaced_repetition_interval = i,
         !.next_review_date = Date(UtcNow + timedelta(i))] :
        i \in {2, 5, 64}}

\* Stored rows: a quiz on t1 without its quiz_analytics row, a session of
\* u1 with one question open, its responses, and the progress row of u1.
InitScheduler ==
    /\ now = UtcNow + 1
    /\ quizzes = <<Quiz("t1", "intermediate", 5, 50)>>
    /\ analytics = <<>>
    /\ \E r \in SchedulerSessions :
          /\ sessions = <<OpenSession(1, "u1", r[1], r[2])>>
          /\ responses = SetToBag(OpenResponses(1, r[1], r[2]))
    /\ \E p \in RescheduledRows : progress = <<p>>
    /\ Idle

\* the submit_answer call of one request, next to the calls of the
\* scheduler
SchedulerNext ==
    \/ \E h \in Handlers :
          \/ \E u \in Users, t \in Topics, s \in PerformanceScores :
                 UpdateSpacedRepetition(h, u, t, RatInt(s))
          \/ UpdateSpacedRepetitionStep(h)
    \/ /\ \/ \E a \in SchedulerAnswers : SubmitAnswer(1, 1, 1, a)
          \/ SubmitAnswerStep(1)
       /\ UNCHANGED out

SpecScheduler == InitScheduler /\ [][SchedulerNext]_vars

\* ------------------------------------------------ reviews and advice
MaxRecommendations == 3

\* u2 has no progress rows
ReviewUsers == {"u1", "u2"}
ReviewTopics == <<"t1", "t2">>

\* (total, correct) of a stored session of u1, which its last answer
\* completes with score 50 or 100, or with 60 or 80
ReviewSessions == {<<2, 1>>, <<5, 3>>}

\* list.sort(key=...): the elements in the order of their keys, elements
\* with equal keys in the order they had; <<a, b>> \in less is key(a) < key(b)
SortedBy(seq, less) ==
    LET rank(i) ==
            Cardinality({j \in DOMAIN seq :
                            \/ <<seq[j], seq[i]>> \in less
                            \/ (<<seq[i], seq[j]>> \notin less /\ j < i)}) + 1
    IN  [r \in 1..Len(seq) |-> seq[CHOOSE i \in DOMAIN seq : rank(i) = r]]

\* query(UserProgress).filter(user_id).all(), in storage order
ProgressRecords(user_id) ==
    SelectSeq(progress, LAMBDA p : p.user_id = user_id)

\* The due test with next_review_date < current_time.
IsDueStrict(p) == p.next_review_date.set /\ p.next_review_date.at < now

\* progress.next_review_date and progress.next_review_date <= current_time
IsDue(p) == p.next_review_date.set /\ p.next_review_date.at <= now

\* key=lambda x: (x.next_review, -x.success_rate): the datetimes are
\* compared, and the success rates of items due at the same datetime
SrItemLess(a, b) ==
    \/ a.next_review.at < b.next_review.at
    \/ /\ a.next_review.at = b.next_review.at
       /\ ~RatGE(b.success_rate, a.success_rate)

get_spaced_repetition_items(user_id) ==
    LET due == SelectSeq(ProgressRecords(user_id), IsDue)
        sr_items == [i \in 1..Len(due) |-> SpacedRepetitionItem(due[i])]
    IN  SortedBy(sr_items,
                 {k \in {sr_items[i] : i \in DOMAIN sr_items}
                        \X {sr_items[i] : i \in DOMAIN sr_items} :
                     SrItemLess(k[1], k[2])})

LearningRecommendation(type, topic, difficulty, priority, estimated_time_minutes, confidence_score) ==
    [type |-> type, topic |-> topic, difficulty |-> difficulty,
     priority |-> priority,
     estimated_time_minutes |-> estimated_time_minutes,
     confidence_score |-> confidence_score]

_get_beginner_recommendations ==
    <<LearningRecommendation("beginner", "fundamentals", "beginner", 1, 15,
                             RatInt(1))>>

\* difficulty_progression.get(current_difficulty)
_get_next_difficulty(current_difficulty) ==
    IF current_difficulty = "beginner" THEN "intermediate"
    ELSE IF current_difficulty = "intermediate" THEN "advanced"
    ELSE "None"

\* lines 384-423: what one progress row adds to the recommendations
RowRecommendations(p) ==
    (IF ~RatGE(p.average_score, RatInt(70))
     THEN <<LearningRecommendation("knowledge_gap", p.topic,
                                   p.suggested_difficulty, 1, 20, Rat(9, 10))>>
     ELSE <<>>)
    \o (IF IsDue(p)
        THEN <<LearningRecommendation("spaced_repetition", p.topic,
                                      p.suggested_difficulty, 2, 15,
                                      Rat(8, 10))>>
        ELSE <<>>)
    \o (IF /\ RatGE(p.mastery_score, RatInt(80))
           /\ p.suggested_difficulty # "advanced"
           /\ _get_next_difficulty(p.suggested_difficulty) # "None"
        THEN <<LearningRecommendation(
                   "progression", p.topic,
                   _get_next_difficulty(p.suggested_difficulty), 3, 25,
                   Rat(7, 10))>>
        ELSE <<>>)

RECURSIVE Recommendations(_)
Recommendations(records) ==
    IF records = <<>> THEN <<>>
    ELSE RowRecommendations(Head(records)) \o Recommendations(Tail(records))

\* key=lambda x: (x.priority, -x.confidence_score)
RecommendationLess(a, b) ==
    \/ a.priority < b.priority
    \/ /\ a.priority = b.priority
       /\ ~RatGE(b.confidence_score, a.confidence_score)

\* The recommendations in the order the loop appended them.
AsAppended(recommendations) == recommendations

\* recommendations.sort(key=...)
SortRecommendations(recommendations) ==
    SortedBy(recommendations,
             {k \in {recommendations[i] : i \in DOMAIN recommendations}
                    \X {recommendations[i] : i \in DOMAIN recommendations} :
                 RecommendationLess(k[1], k[2])})

\* _get_new_topic_recommendations
_get_new_topic_recommendations(user_id) == <<>>

\* recommendations[:max_recommendations], max_recommendations >= 0
Truncate(recommendations, max_recommendations) ==
    SubSeq(recommendations, 1, Min(max_recommendations, Len(recommendations)))

generate_learning_recommendations(user_id, max_recommendations) ==
    LET progress_records == ProgressRecords(user_id)
    IN  IF progress_records = <<>>
          THEN _get_beginner_recommendations
        ELSE Truncate(
                 SortRecommendations(
                     Recommendations(progress_records)
                         \o _get_new_topic_recommendations(user_id)),
                 max_recommendations)

\* A query that also pushes the next review of the rows it looked at a day
\* on.
GetSpacedRepetitionItemsRescheduling(user_id) ==
    /\ out' = [call |-> [op |-> "get_spaced_repetition_items",
                         user_id |-> user_id],
               before |-> Null,
               result |-> get_spaced_repetition_items(user_id)]
    /\ progress' = [i \in DOMAIN progress |->
                       IF progress[i].user_id = user_id
                       THEN [progress[i] EXCEPT
                                !.next_review_date =
                                    Date(now + timedelta(1))]
                       ELSE progress[i]]
    /\ UNCHANGED <<quizzes, analytics, sessions, responses, applied, pc, loc,
                   now, reschedulings>>

GetSpacedRepetitionItems(user_id) ==
    /\ out' = [call |-> [op |-> "get_spaced_repetition_items",
                         user_id |-> user_id],
               before |-> Null,
               result |-> get_spaced_repetition_items(user_id)]
    /\ UNCHANGED <<quizzes, analytics, sessions, responses, progress, applied,
                   pc, loc, now, reschedulings>>

GenerateLearningRecommendations(user_id, max_recommendations) ==
    /\ out' = [call |-> [op |-> "generate_learning_recommendations",
                         user_id |-> user_id, max |-> max_recommendations],
               before |-> Null,
               result |-> generate_learning_recommendations(
                              user_id, max_recommendations)]
    /\ UNCHANGED <<quizzes, analytics, sessions, responses, progress, applied,
                   pc, loc, now, reschedulings>>

\* The time between two requests: a day, or a day less the two clock
\* readings of a completion, after which the next completion reschedules its
\* row exactly a day after the last one did.  The shorter pause is followed
\* on the first day.
Pauses == {timedelta(1) - 2, timedelta(1)}

\* no request is being served, and none arrives for some time
Tick ==
    /\ \A h \in Handlers : pc[h] = "idle"
    /\ \E d \in Pauses :
          /\ d = timedelta(1) \/ now < timedelta(1)
          /\ now + d <= timedelta(MaxDays)
          /\ now' = now + d
    /\ UNCHANGED <<quizzes, analytics, sessions, responses, progress, applied,
                   pc, loc, reschedulings, out>>

\* one quiz per topic, stored without its quiz_analytics row
ReviewQuizzes ==
    [i \in DOMAIN ReviewTopics |-> Quiz(ReviewTopics[i], "intermediate", 5, 50)]

\* Stored rows: the quizzes, a session of u1 on each with one question
\* open, their responses, and the progress rows of u1 with the column
\* defaults.
InitReview ==
    /\ now = UtcNow
    /\ quizzes = ReviewQuizzes
    /\ analytics = <<>>
    /\ \E r \in [DOMAIN ReviewTopics -> ReviewSessions] :
          /\ sessions = [i \in DOMAIN ReviewTopics |->
                            OpenSession(i, "u1", r[i][1], r[i][2])]
          /\ responses = SetToBag(UNION {OpenResponses(i, r[i][1], r[i][2]) :
                                            i \in DOMAIN ReviewTopics})
    /\ progress = [i \in DOMAIN ReviewTopics |->
                      UserProgress("u1", ReviewTopics[i])]
    /\ Idle

\* one submit_answer call at a time, while the time passes; then the
\* user's reviews and recommendations are asked for
ReviewNext ==
    \/ /\ NoQueryYet
       /\ \/ \E s \in DOMAIN ReviewTopics, a \in SchedulerAnswers :
                SubmitAnswer(1, s, 1, a)
          \/ SubmitAnswerStep(1)
       /\ UNCHANGED out
    \/ NoQueryYet /\ Tick
    \/ \E u \in ReviewUsers : GetSpacedRepetitionItems(u)
    \/ \E u \in ReviewUsers, m \in 0..MaxRecommendations :
          GenerateLearningRecommendations(u, m)

SpecReview == InitReview /\ [][ReviewNext]_vars
\* ---------------------------------------------------------------------
\* Gap analysis of LearningAnalyticsService over the responses and the
\* progress rows that sessions taken one after the other leave behind.
MaxGapSessions == 2

\* (total, correct) of the responses of a session: accuracies 45, 50, 70,
\* 80 and 85
GapResults == {<<20, 9>>, <<10, 5>>, <<10, 7>>, <<5, 4>>, <<20, 17>>}

\* a session that was taken: <<user_id, quiz_id, status, <<total, correct>>>>;
\* u1 completes sessions with every result, and sessions in progress and
\* sessions of u2 have 9 of 20
TakenSessions ==
    ({"u1"} \X (DOMAIN ReviewTopics) \X {"completed"} \X GapResults)
    \cup (ReviewUsers \X (DOMAIN ReviewTopics)
              \X {"completed", "in_progress"} \X {<<20, 9>>})

\* the user_responses row of submit_answer with its topic column, which is
\* question_data['topic']
AnsweredResponse(session_id, question_id, topic, is_correct) ==
    [session_id |-> session_id, question_id |-> question_id,
     is_correct |-> is_correct, topic |-> topic]

\* one quiz per topic, large enough for every session taken, stored without
\* a quiz_analytics row
GapQuizzes ==
    [i \in DOMAIN ReviewTopics |-> Quiz(ReviewTopics[i], "intermediate", 21, 50)]

\* the session row that _complete_quiz_session leaves (lines 339-348); at
\* is the clock reading of line 342
CompletedSession(quiz_id, user_id, total_questions, correct_answers, at) ==
    LET score == Percent(correct_answers, total_questions)
    IN  [QuizSession(quiz_id, user_id, generate_quiz(total_questions)) EXCEPT
            !.status = "completed",
            !.completed_at = Date(at),
            !.answered_questions = total_questions,
            !.current_question = total_questions,
            !.correct_answers = correct_answers,
            !.score = score,
            !.passed = RatGE(score, RatInt(GapQuizzes[quiz_id].passing_score))]

\* The session row of x, the s-th session taken: completed with all its
\* questions answered, or in progress with one question left.  The s-th
\* session reads the clock at 2 s - 2, when it completes, and at 2 s - 1,
\* when it reschedules the progress row.
TakenSession(s, x) ==
    LET total == x[4][1]
        correct == x[4][2]
    IN  IF x[3] = "completed"
          THEN CompletedSession(x[2], x[1], total, correct, UtcNow + 2 * s - 2)
          ELSE [QuizSession(x[2], x[1], generate_quiz(total + 1)) EXCEPT
                   !.answered_questions = total,
                   !.current_question = total,
                   !.correct_answers = correct]

\* the response rows of session number s taken as x: one per answered
\* question, the first ones correct
TakenResponses(s, x) ==
    {AnsweredResponse(s, q, ReviewTopics[x[2]], q <= x[4][2]) :
        q \in 1..x[4][1]}

RECURSIVE ProgressAfter(_, _, _)
\* the progress row of (user_id, topic index) after the completed sessions
\* among taken[1..n], each applied by _update_user_progress in turn
ProgressAfter(taken, n, key) ==
    IF n = 0 THEN UserProgress(key[1], ReviewTopics[key[2]])
    ELSE LET x == taken[n]
             before == ProgressAfter(taken, n - 1, key)
         IN  IF x[1] = key[1] /\ x[2] = key[2] /\ x[3] = "completed"
               THEN _update_user_progress(before, TakenSession(n, x),
                                          GapQuizzes[x[2]], UtcNow + 2 * n - 1)
               ELSE before

RECURSIVE AnalyticsAfter(_)
\* the quiz_analytics table after sessions[1..n] were taken one after the
\* other: the first completion of a quiz inserts the row of the quiz and
\* averages over the session itself, a later one averages over the sessions
\* stored as completed before it (_update_quiz_analytics)
AnalyticsAfter(n) ==
    IF n = 0 THEN <<>>
    ELSE LET before == AnalyticsAfter(n - 1)
             session == sessions[n]
             hits == {i \in DOMAIN before :
                         before[i].quiz_id = session.quiz_id}
             idx == IF hits = {} THEN 0
                    ELSE CHOOSE i \in hits : \A j \in hits : i <= j
             l == [session_id |-> n, session |-> session]
             completed_before ==
                 {s \in 1..(n - 1) : /\ sessions[s].quiz_id = session.quiz_id
                                     /\ sessions[s].status = "completed"}
         IN  IF session.status # "completed" THEN before
             ELSE IF idx = 0
               THEN Append(before,
                        [CountAttempt(QuizAnalytics(session.quiz_id), session)
                            EXCEPT !.average_score = session.score])
             ELSE [before EXCEPT ![idx] =
                      [CountAttempt(@, session) EXCEPT
                          !.average_score =
                              AverageScore(completed_before, l)]]

\* rows of db.query(UserResponse).join(QuizSession).filter(
\*     QuizSession.user_id == user_id, QuizSession.status == "completed")
CompletedResponses(user_id) ==
    {r \in BagToSet(responses) :
        /\ r.session_id \in DOMAIN sessions
        /\ sessions[r.session_id].user_id = user_id
        /\ sessions[r.session_id].status = "completed"}

\* response.topic, the column submit_answer fills from
\* question_data['topic']; the rows the quiz manager stores here leave the
\* column out, and their questions are on the topic of their quiz
ResponseTopic(r) ==
    IF "topic" \in DOMAIN r THEN r.topic
    ELSE quizzes[sessions[r.session_id].quiz_id].topic

\* topic_performance[topic]: "total" and "correct" over the rows
TopicPerformance(user_id, topic) ==
    LET rows == {r \in CompletedResponses(user_id) : ResponseTopic(r) = topic}
        right == {r \in rows : r.is_correct}
    IN  [total |-> BagCardinality([r \in rows |-> responses[r]]),
         correct |-> BagCardinality([r \in right |-> responses[r]])]

\* The keys of topic_performance in insertion order.  A topic is inserted
\* with the first of its rows, and the query has no ORDER BY: the rows come
\* in an order the database chooses, so the keys can come in any order.
TopicsSeen(user_id) ==
    LET topics == {ResponseTopic(r) : r \in CompletedResponses(user_id)}
        n == Cardinality(topics)
    IN  {order \in [1..n -> topics] :
            \A i, j \in 1..n : i # j => order[i] # order[j]}

\* accuracy < 70, the strict test of the gap (mutation: accuracy <= 70)
IsGapInclusive(accuracy) == RatLE(accuracy, RatInt(70))

\* if accuracy < 70
IsGap(accuracy) == ~RatGE(accuracy, RatInt(70))

\* the "gaps" list of identify_knowledge_gaps for topic_performance with
\* its keys in the order topics; weak_areas, the texts of the missed
\* questions, is left out
identify_knowledge_gaps(user_id, topics) ==
    LET accuracy(t) ==
            Percent(TopicPerformance(user_id, t).correct,
                    TopicPerformance(user_id, t).total)
        gaps == SelectSeq(topics, LAMBDA t : IsGap(accuracy(t)))
    IN  IF CompletedResponses(user_id) = {} THEN <<>>
        ELSE [i \in 1..Len(gaps) |->
                [topic |-> gaps[i],
                 accuracy |-> accuracy(gaps[i]),
                 total_questions |-> TopicPerformance(user_id, gaps[i]).total,
                 severity |-> IF ~RatGE(accuracy(gaps[i]), RatInt(50))
                                THEN "high" ELSE "medium"]]

\* (gaps, strengths) of _identify_knowledge_gaps_and_strengths: topics of the
\* user's progress rows by average_score
_identify_knowledge_gaps_and_strengths(user_id) ==
    LET records == ProgressRecords(user_id)
        low == SelectSeq(records,
                         LAMBDA p : ~RatGE(p.average_score, RatInt(70)))
        high == SelectSeq(records,
                          LAMBDA p : /\ RatGE(p.average_score, RatInt(70))
                                     /\ RatGE(p.average_score, RatInt(85)))
    IN  <<[i \in 1..Len(low) |-> low[i].topic],
          [i \in 1..Len(high) |-> high[i].topic]>>

IdentifyKnowledgeGaps(user_id) ==
    /\ \E topics \in TopicsSeen(user_id) :
          out' = [call |-> [op |-> "identify_knowledge_gaps",
                           user_id |-> user_id],
                 before |-> Null,
                 result |-> identify_knowledge_gaps(user_id, topics)]
    /\ UNCHANGED <<quizzes, analytics, sessions, responses, progress, applied,
                   pc, loc, now, reschedulings>>

IdentifyKnowledgeGapsAndStrengths(user_id) ==
    /\ out' = [call |-> [op |-> "_identify_knowledge_gaps_and_strengths",
                         user_id |-> user_id],
               before |-> Null,
               result |-> _identify_knowledge_gaps_and_strengths(user_id)]
    /\ UNCHANGED <<quizzes, analytics, sessions, responses, progress, applied,
                   pc, loc, now, reschedulings>>

InitGaps ==
    \E n \in 0..MaxGapSessions : \E taken \in [1..n -> TakenSessions] :
        /\ now = UtcNow + 2 * n
        /\ quizzes = GapQuizzes
        /\ sessions = [s \in 1..n |-> TakenSession(s, taken[s])]
        /\ analytics = AnalyticsAfter(n)
        /\ responses = SetToBag(UNION {TakenResponses(s, taken[s]) :
                                          s \in 1..n})
        /\ progress = [k \in 1..(2 * Len(ReviewTopics)) |->
                          ProgressAfter(taken, n,
                              <<IF k <= Len(ReviewTopics) THEN "u1" ELSE "u2",
                                ((k - 1) % Len(ReviewTopics)) + 1>>)]
        /\ Idle

GapsNext ==
    \/ \E u \in ReviewUsers : IdentifyKnowledgeGaps(u)
    \/ \E u \in ReviewUsers : IdentifyKnowledgeGapsAndStrengths(u)

SpecGaps == InitGaps /\ [][GapsNext]_vars

\* ---------------------------------------------------------------------
\* submit_answer on sessions whose snapshot holds a question of a type that
\* _evaluate_answer has no branch for.
\* A question dict whose question_type is none of QuestionType.  The
\* generator's Question model rejects such a type, so the dict is in a
\* quiz_sessions row only when the row was written by other means.
UnsupportedQuestion(i) ==
    [id |-> i, question_type |-> "essay", correct_answer |-> StrVal(<<"b">>)]

\* Stored rows: a quiz without its quiz_analytics row and two sessions of
\* it, one without a user whose snapshot is [essay question 1] and one of u1
\* whose snapshot is [essay question 1, question 2 of the bank]
InitUnsupported ==
    /\ now = UtcNow
    /\ quizzes = <<Quiz("t1", "intermediate", MaxQuestions, 50)>>
    /\ analytics = <<>>
    /\ sessions = <<QuizSession(1, NoUser, <<UnsupportedQuestion(1)>>),
                    QuizSession(1, "u1", <<UnsupportedQuestion(1),
                                           QuestionBank(2)>>)>>
    /\ responses = EmptyBag
    /\ progress = SeedRows(SeedKeys)
    /\ Idle

SpecUnsupported == InitUnsupported /\ [][SubmitNext]_vars

\* ---------------------------------------------------------------------
\* First completions: the user_progress table is empty, and the stored
\* sessions of the quiz, one question each, are one without a user and two
\* of u1.  Every submit_answer call completes its session.
MaxFirstSessions == 3

InitNoProgress ==
    /\ now = UtcNow
    /\ quizzes = <<Quiz("t1", "intermediate", MaxQuestions, 50)>>
    /\ analytics = <<>>
    /\ sessions = [s \in 1..MaxFirstSessions |->
                      QuizSession(1, IF s = 1 THEN NoUser ELSE "u1",
                                  generate_quiz(1))]
    /\ responses = EmptyBag
    /\ progress = <<>>
    /\ applied = [s \in 1..MaxFirstSessions |-> 0]
    /\ reschedulings = 0
    /\ pc = [h \in Handlers |-> "idle"]
    /\ loc = [h \in Handlers |-> IdleLoc]
    /\ out = NoCall

NoProgressNext ==
    /\ \E h \in Handlers :
          \/ \E s \in 1..MaxFirstSessions, a \in SchedulerAnswers :
                 SubmitAnswer(h, s, 1, a)
          \/ SubmitAnswerStep(h)
    /\ now' <= UtcNow + MaxSeededReadings
    /\ UNCHANGED out

SpecNoProgress == InitNoProgress /\ [][NoProgressNext]_vars

\* ---------------------------------------------------------------------
\* Two runs of the aggregation side by side: u1 and u2 each finish a session
\* of either quiz, one submit_answer call after the other, while the time
\* passes.
MaxReplaySessions == 4

\* quizzes on one topic with two difficulty levels, stored without their
\* quiz_analytics rows
ReplayQuizzes ==
    <<Quiz("t1", "intermediate", MaxQuestions, 50),
      Quiz("t1", "advanced", MaxQuestions, 50)>>

\* The stored sessions of a user: one of the first quiz with its only
\* question open, and one of the second quiz with the first of its two
\* questions answered correctly.
ReplaySessions(user_id) ==
    <<QuizSession(1, user_id, generate_quiz(1)),
      [QuizSession(2, user_id, generate_quiz(2)) EXCEPT
          !.answered_questions = 1,
          !.correct_answers = 1,
          !.current_question = 1]>>

InitReplay ==
    /\ now = UtcNow
    /\ quizzes = ReplayQuizzes
    /\ analytics = <<>>
    /\ sessions = ReplaySessions("u1") \o ReplaySessions("u2")
    /\ responses = SetToBag({UserResponse(2, 1, TRUE), UserResponse(4, 1, TRUE)})
    /\ progress = <<UserProgress("u1", "t1"), UserProgress("u2", "t1")>>
    /\ applied = [s \in 1..MaxReplaySessions |-> 0]
    /\ reschedulings = 0
    /\ pc = [h \in Handlers |-> "idle"]
    /\ loc = [h \in Handlers |-> IdleLoc]
    /\ out = NoCall

\* one call at a time; between the calls the time passes
ReplayNext ==
    \/ /\ \/ \E s \in 1..MaxReplaySessions, q \in 1..MaxQuestions,
               a \in UserAnswers : SubmitAnswer(1, s, q, a)
          \/ SubmitAnswerStep(1)
       /\ UNCHANGED out
    \/ Tick

SpecReplay == InitReplay /\ [][ReplayNext]_vars

\* ---------------------------------------------------------------------
\* generate_performance_report over the sessions u1 completes, one
\* submit_answer call after the other, while the time passes; then the
\* report is asked for.
MaxInsightSessions == 3

\* (total, correct) of the stored sessions: the first completes with 0 or 1
\* of 2, the second with 8 or 9 of 20, the third with 10 or 11 of 20
InsightSessions ==
    [s \in 1..MaxInsightSessions |->
        IF s = 1 THEN <<2, 0>> ELSE <<20, 4 + 2 * s>>]

InitInsights ==
    /\ now = UtcNow
    /\ quizzes = <<Quiz("t1", "intermediate", 20, 50)>>
    /\ analytics = <<>>
    /\ sessions = [s \in 1..MaxInsightSessions |->
                      OpenSession(1, "u1", InsightSessions[s][1],
                                  InsightSessions[s][2])]
    /\ responses = SetToBag(UNION {OpenResponses(s, InsightSessions[s][1],
                                                 InsightSessions[s][2]) :
                                      s \in 1..MaxInsightSessions})
    /\ progress = <<UserProgress("u1", "t1")>>
    /\ applied = [s \in 1..MaxInsightSessions |-> 0]
    /\ reschedulings = 0
    /\ pc = [h \in Handlers |-> "idle"]
    /\ loc = [h \in Handlers |-> IdleLoc]
    /\ out = NoCall

RECURSIVE SumOfScores(_)
\* sum(s.score for s in sessions), added up from 0 in the order of the list
SumOfScores(list) ==
    IF list = <<>> THEN RatInt(0)
    ELSE RatAdd(SumOfScores(SubSeq(list, 1, Len(list) - 1)),
                list[Len(list)].score)

\* query(QuizSession).filter(user_id, status == "completed",
\* completed_at >= start_date).order_by(completed_at), with start_date =
\* utcnow() - timedelta(days=30): the rows in the order of their datetimes
\* (no two completions read the same)
SessionsInPeriod(user_id) ==
    LET start_date == now - timedelta(30)
        rows == SelectSeq(sessions,
                          LAMBDA x : /\ x.user_id = user_id
                                     /\ x.status = "completed"
                                     /\ x.completed_at.at >= start_date)
    IN  SortedBy(rows,
                 {k \in {rows[i] : i \in DOMAIN rows}
                        \X {rows[i] : i \in DOMAIN rows} :
                     k[1].completed_at.at < k[2].completed_at.at})

_generate_performance_insights(list) ==
    IF Len(list) >= 2
      THEN LET mid_point == Len(list) \div 2
               first_half_avg ==
                   RatOver(SumOfScores(SubSeq(list, 1, mid_point)), mid_point)
               second_half_avg ==
                   RatOver(SumOfScores(SubSeq(list, mid_point + 1, Len(list))),
                           Len(list) - mid_point)
           IN  IF ~RatLE(second_half_avg, RatAdd(first_half_avg, RatInt(5)))
                 THEN <<[type |-> "improvement", confidence |-> Rat(8, 10)]>>
               ELSE IF ~RatLE(first_half_avg,
                              RatAdd(second_half_avg, RatInt(5)))
                 THEN <<[type |-> "regression", confidence |-> Rat(8, 10)]>>
               ELSE <<>>
    ELSE <<>>

\* the report: without a session in the period the message alone, else the
\* dict, of which the key "insights" is kept
generate_performance_report(user_id) ==
    LET list == SessionsInPeriod(user_id)
    IN  IF list = <<>>
          THEN [message |-> "No activity in selected period"]
        ELSE [insights |-> _generate_performance_insights(list)]

GeneratePerformanceReport(user_id) ==
    /\ out' = [call |-> [op |-> "generate_performance_report",
                         user_id |-> user_id],
               before |-> Null,
               result |-> generate_performance_report(user_id)]
    /\ UNCHANGED <<quizzes, analytics, sessions, responses, progress, applied,
                   pc, loc, now, reschedulings>>

InsightsNext ==
    \/ /\ NoQueryYet
       /\ \/ \E s \in 1..MaxInsightSessions, a \in SchedulerAnswers :
                SubmitAnswer(1, s, 1, a)
          \/ SubmitAnswerStep(1)
       /\ UNCHANGED out
    \/ NoQueryYet /\ Tick
    \/ \E u \in ReviewUsers : GeneratePerformanceReport(u)

SpecInsights == InitInsights /\ [][InsightsNext]_vars

\* ---------------------------------------------------------------------
\* Who writes user_progress: the quiz manager, the scheduler and the read
\* queries of the analytics service on one database.  Session 1 has no user
\* and one question, session 2 is u1's and has two; the quiz has no
\* analytics row yet, so the first completion goes through the nested commit.
\* One submit_answer runs at a time (SubmitNext has their interleavings),
\* next to the calls of the scheduler, while the time passes; then the
\* queries are asked.
\* the answer " a", right on both questions of the bank
FrameAnswers == {StrVal(<<" ", "a">>)}

InitFrame ==
    /\ now = UtcNow
    /\ quizzes = <<Quiz("t1", "intermediate", MaxQuestions, 50)>>
    /\ analytics = <<>>
    /\ sessions = <<QuizSession(1, NoUser, generate_quiz(1)),
                    QuizSession(1, "u1", generate_quiz(2))>>
    /\ responses = EmptyBag
    /\ progress = SeedRows(SeedKeys)
    /\ Idle

FrameNext ==
    \/ /\ NoQueryYet
       /\ \/ \E s \in 1..2, q \in 1..2, a \in FrameAnswers :
                SubmitAnswer(1, s, q, a)
          \/ SubmitAnswerStep(1)
       /\ UNCHANGED out
    \/ /\ NoQueryYet
       /\ \E h \in Handlers :
             \/ UpdateSpacedRepetition(h, "u1", "t1", RatInt(50))
             \/ UpdateSpacedRepetitionStep(h)
    \/ NoQueryYet /\ Tick
    \/ GetSpacedRepetitionItems("u1")
    \/ GenerateLearningRecommendations("u1", MaxRecommendations)
    \/ IdentifyKnowledgeGaps("u1")

SpecFrame == InitFrame /\ [][FrameNext]_vars

\* ================================================================ claims
\* handler h's submit_answer call has ended
Done(h) == pc[h] = "done" /\ loc[h].call = NoCall

\* C1 (as claimed): in every reachable state a (session, question) pair has
\* at most one stored UserResponse row, however many submit_answer calls for
\* the pair run concurrently.
C1_OneResponsePerQuestion ==
    \A s \in 1..MaxSessions, q \in 1..MaxQuestions : ResponseCount(s, q) <= 1

\* C2 (as claimed): a submit_answer call for a pair that already had a stored
\* response when the call began ends with 'Question already answered',
\* whatever the status of the session.
C2_AlwaysAlreadyAnswered ==
    \A h \in Handlers :
        (Done(h) /\ loc[h].seen_response)
            => /\ ~loc[h].result.ok
               /\ loc[h].result.error = AlreadyAnswered

\* C2 (amended): a submit_answer call for a pair that already had a stored
\* response when the call began fails and commits nothing; the error is
\* 'Question already answered' while the session is in_progress and
\* 'Quiz session is not in progress' once it is completed.
C2_LaterSubmitFails ==
    \A h \in Handlers :
        (Done(h) /\ loc[h].seen_response)
            => /\ ~loc[h].result.ok
               /\ ~loc[h].committed
               /\ loc[h].result.error =
                     IF loc[h].seen_status = "in_progress"
                     THEN AlreadyAnswered ELSE NotInProgress

C2_Witness ==
    \E h \in Handlers :
        /\ Done(h)
        /\ loc[h].seen_response
        /\ loc[h].seen_status = "in_progress"
        /\ loc[h].result.error = AlreadyAnswered

\* C3: a session with a user_id is stored as completed exactly when its
\* contribution has been written to the user's UserProgress row: no state
\* shows the one without the other, and the row then counts at least this
\* quiz, its questions, and has a review date.
C3_CompletedIffProgressApplied ==
    \A s \in DOMAIN sessions :
        sessions[s].user_id # NoUser =>
            LET idx == FirstProgress(sessions[s].user_id,
                                     quizzes[sessions[s].quiz_id].topic)
            IN  /\ sessions[s].status = "completed" <=> applied[s] >= 1
                /\ sessions[s].status = "completed" =>
                      /\ idx # 0
                      /\ progress[idx].total_quizzes_taken >= 1
                      /\ progress[idx].total_questions_answered
                            >= sessions[s].total_questions
                      /\ progress[idx].next_review_date.set

C3_Witness ==
    \E s \in DOMAIN sessions :
        /\ sessions[s].user_id # NoUser
        /\ sessions[s].status = "completed"
        /\ applied[s] >= 1

\* C4: a submit_answer call that ends by raising has left every table as it
\* was when the call began: the step that raises writes nothing, and nothing
\* was committed earlier in the call.
C4_RaiseLeavesStateUnchanged ==
    [][\A h \in Handlers :
          (~Done(h) /\ Done(h)' /\ ~loc'[h].result.ok)
              => (UNCHANGED db /\ ~loc'[h].committed)]_vars

\* a raise from inside the completion cascade, with a response and the
\* session's counters pending
C4_Witness ==
    \E h \in Handlers :
        /\ Done(h)
        /\ loc[h].completes
        /\ loc[h].result.error \in {"ZeroDivisionError", NewProgressIncrement}
        /\ ResponseCount(loc[h].session_id, loc[h].question_id) = 0

\* C5: a submit_answer call on a session that is completed or abandoned
\* fails with 'Quiz session is not in progress' and commits nothing.
C5_InactiveSessionRejected ==
    \A h \in Handlers :
        (Done(h) /\ loc[h].seen_status \in {"completed", "abandoned"})
            => /\ ~loc[h].result.ok
               /\ loc[h].result.error = NotInProgress
               /\ ~loc[h].committed

C5_Witness ==
    \E h \in Handlers :
        /\ Done(h)
        /\ loc[h].seen_status = "completed"
        /\ ~loc[h].seen_response
        /\ loc[h].result.error = NotInProgress

\* C6 (as claimed): the step in which a submit_answer call stores its
\* response raises the stored answered_questions and current_question of the
\* session by exactly 1, and correct_answers by 1 for a correct answer and
\* by 0 for an incorrect one.
C6_CountersAdvanceByOne ==
    [][\A s \in DOMAIN sessions, q \in 1..MaxQuestions :
          ResponseCount(s, q)' > ResponseCount(s, q) =>
              LET correct ==
                      CopiesIn(UserResponse(s, q, TRUE), responses')
                          > CopiesIn(UserResponse(s, q, TRUE), responses)
              IN  /\ sessions'[s].answered_questions
                        = sessions[s].answered_questions + 1
                  /\ sessions'[s].current_question
                        = sessions[s].current_question + 1
                  /\ sessions'[s].correct_answers
                        = sessions[s].correct_answers
                              + (IF correct THEN 1 ELSE 0)]_vars

\* C7: in every reachable state the stored answered_questions of a session
\* is at most its total_questions.
C7_AnsweredAtMostTotal ==
    \A s \in DOMAIN sessions :
        sessions[s].answered_questions <= sessions[s].total_questions

\* a session answered to the end, with a question that two interleaved
\* calls both answered
C7_Witness ==
    \E s \in DOMAIN sessions :
        /\ sessions[s].total_questions >= 1
        /\ sessions[s].answered_questions = sessions[s].total_questions
        /\ \E q \in 1..MaxQuestions : ResponseCount(s, q) >= 2

\* C8: a session is created in_progress; its stored status changes only
\* from in_progress to completed or abandoned, and never changes again.
C8_StatusOneWay ==
    [][/\ \A s \in DOMAIN sessions :
             /\ s \in DOMAIN sessions'
             /\ sessions'[s].status # sessions[s].status =>
                   /\ sessions[s].status = "in_progress"
                   /\ sessions'[s].status \in {"completed", "abandoned"}
       /\ \A s \in DOMAIN sessions' \ DOMAIN sessions :
             sessions'[s].status = "in_progress"]_vars

\* a completed session, and a handler about to commit counters it computed
\* on a copy loaded while the session was in_progress, and still has as
\* in_progress
C8_Witness ==
    \E h \in Handlers, s \in DOMAIN sessions :
        /\ sessions[s].status = "completed"
        /\ pc[h] = "commit"
        /\ loc[h].session_id = s
        /\ loc[h].response # Null
        /\ loc[h].session0.status = "in_progress"
        /\ loc[h].session.status = "in_progress"

\* C9 (as claimed): the submit_answer call whose answer brings
\* answered_questions to total_questions succeeds with session_completed
\* true and leaves the session completed, with
\* score = correct_answers / total_questions * 100 and
\* passed = (score >= passing_score).
C9_CompletingSubmitCompletes ==
    \A h \in Handlers :
        (Done(h) /\ loc[h].completes) =>
            LET session == sessions[loc[h].session_id]
                score == Percent(session.correct_answers, session.total_questions)
            IN  /\ loc[h].result.ok
                /\ loc[h].result.session_completed
                /\ session.status = "completed"
                /\ session.score = score
                /\ session.passed =
                      RatGE(score, RatInt(quizzes[session.quiz_id].passing_score))

\* C10 (as claimed): a session that is in_progress has no score and no
\* passed value.
C10_NoScoreWhileInProgress ==
    \A s \in DOMAIN sessions :
        sessions[s].status = "in_progress" =>
            /\ sessions[s].score = Null
            /\ sessions[s].passed \notin BOOLEAN

\* C10 (amended): a session that is in_progress holds the column defaults,
\* score 0.0 and passed False; other values are stored only together with
\* status completed.
C10_DefaultsWhileInProgress ==
    \A s \in DOMAIN sessions :
        sessions[s].status = "in_progress" =>
            /\ sessions[s].score = RatInt(0)
            /\ sessions[s].passed = FALSE

C10_Witness ==
    \E s \in DOMAIN sessions :
        /\ sessions[s].status = "in_progress"
        /\ sessions[s].correct_answers >= 1
        /\ sessions[s].score = RatInt(0)

\* C11: in every reachable state the user_progress table holds at most one
\* row per (user_id, topic), whatever the interleaving of the handlers that
\* complete sessions of the same user on the same topic.
C11_OneProgressRowPerKey ==
    \A i, j \in DOMAIN progress :
        (progress[i].user_id = progress[j].user_id
            /\ progress[i].topic = progress[j].topic) => i = j

\* two handlers completing for a user without a progress row at the same
\* time: one has failed on the row it constructed, the other is about to
C11_Witness ==
    \E h, g \in Handlers :
        /\ h # g
        /\ Done(h)
        /\ loc[h].result.error = NewProgressIncrement
        /\ pc[g] = "update_progress"
        /\ FirstProgress(loc[g].session.user_id,
                         quizzes[loc[g].quiz_id].topic) = 0

\* the call named op has just returned
Returned(op) == out' # out /\ out'.call.op = op

\* the step is the commit of handler h's update_spaced_repetition call
SchedulerCommits(h) ==
    pc[h] = "commit_repetition" /\ pc'[h] = "return_repetition"

\* the row h's call loaded still has the interval the call read
IntervalAsRead(h) ==
    progress[loc[h].progress_idx].spaced_repetition_interval
        = loc[h].progress0.spaced_repetition_interval

\* the step commits, for handler h, the completion of a session that has a
\* user
CommitsCompletion(h) ==
    /\ pc[h] \in {"commit", "insert_analytics"}
    /\ pc'[h] \in {"result", "reload_session"}
    /\ loc[h].completes
    /\ loc[h].progress # Null
    /\ sessions[loc[h].session_id].user_id # NoUser

\* C12 (as claimed): a rescheduling with 60 <= score < 80, by a session
\* completion or by update_spaced_repetition, leaves
\* spaced_repetition_interval as it was.
C12_MiddleBandKeepsInterval ==
    [][\A h \in Handlers :
          /\ (/\ SchedulerCommits(h)
              /\ IntervalAsRead(h)
              /\ RatGE(loc[h].call.score, RatInt(60))
              /\ ~RatGE(loc[h].call.score, RatInt(80)))
                 => progress'[loc[h].progress_idx].spaced_repetition_interval
                       = loc[h].progress0.spaced_repetition_interval
          /\ (/\ CommitsCompletion(h)
              /\ IntervalAsRead(h)
              /\ RatGE(loc[h].session.score, RatInt(60))
              /\ ~RatGE(loc[h].session.score, RatInt(80)))
                 => progress'[loc[h].progress_idx].spaced_repetition_interval
                       = loc[h].progress0.spaced_repetition_interval]_vars

\* C13 (as claimed): a rescheduling with score >= 80, by a session
\* completion or by update_spaced_repetition, sets the interval to
\* min(2 * current, 90), and no interval exceeds 90.
C13_GoodScoreDoublesUpTo90 ==
    [][/\ \A i \in DOMAIN progress' :
             progress'[i].spaced_repetition_interval <= 90
       /\ \A h \in Handlers :
             /\ (/\ SchedulerCommits(h)
                 /\ IntervalAsRead(h)
                 /\ RatGE(loc[h].call.score, RatInt(80)))
                    => progress'[loc[h].progress_idx]
                           .spaced_repetition_interval
                          = Min(2 * loc[h].progress0
                                        .spaced_repetition_interval, 90)
             /\ (/\ CommitsCompletion(h)
                 /\ IntervalAsRead(h)
                 /\ RatGE(loc[h].session.score, RatInt(80)))
                    => progress'[loc[h].progress_idx]
                           .spaced_repetition_interval
                          = Min(2 * loc[h].progress0
                                        .spaced_repetition_interval, 90)]_vars

\* C14: a rescheduling with score < 60, by a session completion or by
\* update_spaced_repetition, sets the interval to max(current // 2, 1),
\* current being the interval the call read and the row still has when the
\* call commits, and the interval of every row is a whole number of days, at
\* least 1, after any sequence of reschedulings.
C14_PoorScoreHalvesNotBelowOne ==
    [][/\ \A i \in DOMAIN progress' :
             /\ progress'[i].spaced_repetition_interval \in Nat
             /\ progress'[i].spaced_repetition_interval >= 1
       /\ \A h \in Handlers :
             /\ (/\ SchedulerCommits(h)
                 /\ IntervalAsRead(h)
                 /\ ~RatGE(loc[h].call.score, RatInt(60)))
                    => progress'[loc[h].progress_idx]
                           .spaced_repetition_interval
                          = Max(loc[h].progress0.spaced_repetition_interval
                                    \div 2, 1)
             /\ (/\ CommitsCompletion(h)
                 /\ IntervalAsRead(h)
                 /\ ~RatGE(loc[h].session.score, RatInt(60)))
                    => progress'[loc[h].progress_idx]
                           .spaced_repetition_interval
                          = Max(loc[h].progress0.spaced_repetition_interval
                                    \div 2, 1)]_vars

\* a call with score 50 that read interval 5 has committed, and the row
\* holds 2
C14_Witness ==
    \E h \in Handlers :
        /\ pc[h] = "return_repetition"
        /\ loc[h].call.score = RatInt(50)
        /\ loc[h].progress0.spaced_repetition_interval = 5
        /\ progress[loc[h].progress_idx].spaced_repetition_interval = 2

\* C15 (as claimed): get_spaced_repetition_items(user) returns exactly the
\* user's rows whose next_review_date is set and not after now, by
\* next_review_date ascending and, for equal dates, by success rate
\* ascending.
C15_DueItemsWeakestFirst ==
    [][Returned("get_spaced_repetition_items") =>
          LET items == out'.result
              due == {i \in DOMAIN progress :
                         /\ progress[i].user_id = out'.call.user_id
                         /\ IsDue(progress[i])}
          IN  /\ Len(items) = Cardinality(due)
              /\ {items[i].topic : i \in DOMAIN items}
                    = {progress[i].topic : i \in due}
              /\ \A i, j \in DOMAIN items :
                    i < j =>
                       \/ items[i].next_review.at < items[j].next_review.at
                       \/ /\ items[i].next_review.at = items[j].next_review.at
                          /\ RatLE(items[i].success_rate,
                                   items[j].success_rate)]_vars

\* C19: the list generate_learning_recommendations returns is in the order
\* of priority ascending and, for equal priority, confidence descending.
C19_RecommendationsSorted ==
    (out # NoCall /\ out.call.op = "generate_learning_recommendations") =>
        \A i, j \in DOMAIN out.result :
            i < j =>
               \/ out.result[i].priority < out.result[j].priority
               \/ /\ out.result[i].priority = out.result[j].priority
                  /\ RatGE(out.result[i].confidence_score,
                           out.result[j].confidence_score)

\* one knowledge_gap and two spaced_repetition candidates, the gap found on
\* the second row: returned as [gap, spaced, spaced]
C19_Witness ==
    /\ out # NoCall
    /\ out.call.op = "generate_learning_recommendations"
    /\ Len(out.result) = 3
    /\ out.result[1].type = "knowledge_gap"
    /\ out.result[1].topic = ReviewTopics[2]
    /\ out.result[1].confidence_score = Rat(9, 10)
    /\ out.result[2].type = "spaced_repetition"
    /\ out.result[2].topic = ReviewTopics[1]
    /\ out.result[3].type = "spaced_repetition"
    /\ out.result[3].topic = ReviewTopics[2]

\* C20 (as claimed): for a user with or without progress rows and for every
\* max >= 0, generate_learning_recommendations(user, max) returns at most
\* max recommendations, the first max of the sorted candidates.
C20_AtMostMaxRecommendations ==
    [][Returned("generate_learning_recommendations") =>
          LET records == ProgressRecords(out'.call.user_id)
              candidates ==
                  IF records = <<>> THEN _get_beginner_recommendations
                  ELSE SortRecommendations(Recommendations(records))
          IN  /\ Len(out'.result) <= out'.call.max
              /\ out'.result = Truncate(candidates, out'.call.max)]_vars

\* C16 (as claimed): a progress row that session completions have updated
\* has average_score = correct_answers / total_questions_answered * 100 and
\* mastery_score = min(100, average_score + min(2 * total_quizzes_taken, 20)),
\* and every progress row has 0 <= mastery_score <= 100.
C16_MasteryScoreFormula ==
    \A i \in DOMAIN progress :
        LET p == progress[i]
        IN  /\ RatGE(p.mastery_score, RatInt(0))
            /\ RatLE(p.mastery_score, RatInt(100))
            /\ p.total_quizzes_taken >= 1 =>
                  /\ p.average_score
                        = Percent(p.correct_answers, p.total_questions_answered)
                  /\ p.mastery_score
                        = RatMin(RatInt(100),
                                 RatAdd(p.average_score,
                                        RatInt(Min(2 * p.total_quizzes_taken,
                                                   20))))

\* position of a difficulty level on the scale beginner < intermediate <
\* advanced
DifficultyRank(d) ==
    IF d = "beginner" THEN 1 ELSE IF d = "intermediate" THEN 2 ELSE 3

\* C17 (as claimed): a progress update by a session completion moves
\* suggested_difficulty from the value the row had before by one level up
\* (capped at advanced) when the score is >= 85, by one level down (floored
\* at beginner) when the score is <= 60, and not at all when 60 < score < 85.
C17_SuggestedDifficultyMovesOneLevel ==
    [][\A h \in Handlers :
          CommitsCompletion(h) =>
             LET row == loc[h].progress_idx
                 score == loc[h].session.score
                 before == DifficultyRank(progress[row].suggested_difficulty)
                 after == DifficultyRank(progress'[row].suggested_difficulty)
             IN  after = IF RatGE(score, RatInt(85))
                           THEN Min(before + 1, 3)
                         ELSE IF RatLE(score, RatInt(60))
                           THEN Max(before - 1, 1)
                         ELSE before]_vars

\* C18: for every topic with accuracy a = correct / total * 100,
\* identify_knowledge_gaps reports the topic as a gap iff a < 70, with
\* severity high iff a < 50 and medium otherwise, and
\* _identify_knowledge_gaps_and_strengths lists it as a gap iff a < 70 and as
\* a strength iff a >= 85, so a topic with 70 <= a < 85 is in neither list.
C18_GapsAndStrengthsByAccuracy ==
    /\ (out # NoCall /\ out.call.op = "identify_knowledge_gaps") =>
          \A t \in {ReviewTopics[i] : i \in DOMAIN ReviewTopics} :
              LET perf == TopicPerformance(out.call.user_id, t)
                  a == Percent(perf.correct, perf.total)
                  reported == {i \in DOMAIN out.result : out.result[i].topic = t}
              IN  perf.total > 0 =>
                     /\ (reported # {}) <=> ~RatGE(a, RatInt(70))
                     /\ Cardinality(reported) <= 1
                     /\ \A i \in reported :
                           /\ out.result[i].severity \in {"high", "medium"}
                           /\ (out.result[i].severity = "high")
                                  <=> ~RatGE(a, RatInt(50))
    /\ (out # NoCall
        /\ out.call.op = "_identify_knowledge_gaps_and_strengths") =>
          \A i \in DOMAIN progress :
              LET p == progress[i]
                  a == Percent(p.correct_answers, p.total_questions_answered)
                  gaps == {out.result[1][j] : j \in DOMAIN out.result[1]}
                  strengths == {out.result[2][j] : j \in DOMAIN out.result[2]}
              IN  (p.user_id = out.call.user_id
                   /\ p.total_questions_answered > 0) =>
                     /\ (p.topic \in gaps) <=> ~RatGE(a, RatInt(70))
                     /\ (p.topic \in strengths) <=> RatGE(a, RatInt(85))
                     /\ (RatGE(a, RatInt(70)) /\ ~RatGE(a, RatInt(85)))
                            => p.topic \notin (gaps \cup strengths)

\* identify_knowledge_gaps has answered for a user with 9 of 20 responses
\* correct on one topic, reported high, and exactly 70 on another, not
\* reported
C18_Witness ==
    /\ out # NoCall
    /\ out.call.op = "identify_knowledge_gaps"
    /\ \E t \in {ReviewTopics[i] : i \in DOMAIN ReviewTopics} :
          /\ TopicPerformance(out.call.user_id, t) = [total |-> 20, correct |-> 9]
          /\ \E i \in DOMAIN out.result :
                out.result[i].topic = t /\ out.result[i].severity = "high"
    /\ \E t \in {ReviewTopics[i] : i \in DOMAIN ReviewTopics} :
          /\ TopicPerformance(out.call.user_id, t) = [total |-> 10, correct |-> 7]
          /\ \A i \in DOMAIN out.result : out.result[i].topic # t

\* C21 (as claimed): submit_answer for a question whose type is none of
\* multiple_choice, true_false, fill_in_blank, short_answer fails: the call
\* ends with an error, no response is stored for the question and the
\* counters of the session do not count it.
C21_UnsupportedTypeFails ==
    /\ \A s \in DOMAIN sessions : \A i \in DOMAIN sessions[s].questions_data :
          LET question_data == sessions[s].questions_data[i]
          IN  question_data.question_type \notin QuestionType =>
                 ResponseCount(s, question_data.id) = 0
    /\ \A h \in Handlers :
          (/\ pc[h] = "done"
           /\ loc[h].session_id \in DOMAIN sessions
           /\ FindQuestion(sessions[loc[h].session_id], loc[h].question_id) # Null
           /\ FindQuestion(sessions[loc[h].session_id],
                           loc[h].question_id).question_type \notin QuestionType)
              => ~loc[h].result.ok

\* C22 (as claimed): start_quiz_session stores no session for an empty
\* question list: every stored session has total_questions = the number of
\* its snapshot questions >= 1, and a session is stored in_progress with
\* answered_questions = 0.
C22_NoSessionWithoutQuestions ==
    [][/\ \A s \in DOMAIN sessions' :
             /\ sessions'[s].total_questions = Len(sessions'[s].questions_data)
             /\ sessions'[s].total_questions >= 1
       /\ \A s \in DOMAIN sessions' \ DOMAIN sessions :
             /\ sessions'[s].answered_questions = 0
             /\ sessions'[s].status = "in_progress"]_vars
\* the completed sessions of a user in the order they completed
SessionLog(user_id) ==
    LET log == SelectSeq(sessions,
                         LAMBDA x : x.user_id = user_id /\ x.status = "completed")
    IN  SortedBy(log,
                 {k \in {log[i] : i \in DOMAIN log}
                        \X {log[i] : i \in DOMAIN log} :
                     k[1].completed_at.at < k[2].completed_at.at})

\* the clock readings of a log tell which session came first
Ordered(log) ==
    \A i, j \in DOMAIN log :
        i < j => log[i].completed_at.at < log[j].completed_at.at

\* what a run applies with a session: the quiz, the question count, the
\* correct count and the score
Applied(session) ==
    <<session.quiz_id, session.total_questions, session.correct_answers,
      session.score>>

\* the two runs have applied the same ordered sequence of completed sessions
SameSessions(a, b) ==
    /\ Len(a) = Len(b)
    /\ \A i \in DOMAIN a : Applied(a[i]) = Applied(b[i])

\* the fields of a row that the aggregation fills, without its key and its
\* review date
Aggregates(p) ==
    [f \in DOMAIN p \ {"user_id", "topic", "next_review_date"} |-> p[f]]

\* the time from the completion of the last session of the log to the review
\* date of the row
ReviewDistance(p, log) ==
    p.next_review_date.at - log[Len(log)].completed_at.at

StoredResponses(s) ==
    BagCardinality([r \in {x \in BagToSet(responses) : x.session_id = s}
                       |-> responses[r]])

StoredCorrect(s) ==
    BagCardinality([r \in {x \in BagToSet(responses) :
                              x.session_id = s /\ x.is_correct}
                       |-> responses[r]])

\* C24 (as claimed): with successful submit_answer calls for different
\* questions of a session, interleaved in any way, every committed state has
\* answered_questions = the number of stored responses of the session and
\* correct_answers = the number of those with is_correct true.
C24_NoLostCounterUpdate ==
    \A s \in DOMAIN sessions :
        (\A q \in 1..MaxQuestions : ResponseCount(s, q) <= 1) =>
            /\ sessions[s].answered_questions = StoredResponses(s)
            /\ sessions[s].correct_answers = StoredCorrect(s)

\* C25 (as claimed): a session each of whose snapshot questions has received
\* a successful submit_answer, in any order and from any handlers, is
\* completed: no session is in_progress while every question of its snapshot
\* has its stored response.
C25_AllAnsweredIsCompleted ==
    \A s \in DOMAIN sessions :
        (/\ sessions[s].questions_data # <<>>
         /\ \A i \in DOMAIN sessions[s].questions_data :
               ResponseCount(s, sessions[s].questions_data[i].id) = 1)
            => sessions[s].status = "completed"

\* the completed sessions of a user on quizzes of a topic
CompletedOn(user_id, topic) ==
    {s \in DOMAIN sessions :
        /\ sessions[s].user_id = user_id
        /\ sessions[s].status = "completed"
        /\ quizzes[sessions[s].quiz_id].topic = topic}

RECURSIVE SumOver(_, _)
\* the sum of a column over a set of sessions
SumOver(S, column) ==
    IF S = {} THEN 0
    ELSE LET s == CHOOSE x \in S : TRUE
         IN  sessions[s][column] + SumOver(S \ {s}, column)

\* C26 (as claimed): in every committed state, for each (user, topic) the
\* UserProgress row counts the user's completed sessions on quizzes of the
\* topic: total_quizzes_taken is their number, total_questions_answered the
\* sum of their total_questions, correct_answers the sum of their
\* correct_answers; a user with a completed session has the row.
C26_ProgressTotalsAreSessionSums ==
    \A u \in Users \ {NoUser}, t \in Topics :
        LET S == CompletedOn(u, t)
            idx == FirstProgress(u, t)
        IN  /\ S # {} => idx # 0
            /\ idx # 0 =>
                  /\ progress[idx].total_quizzes_taken = Cardinality(S)
                  /\ progress[idx].total_questions_answered
                        = SumOver(S, "total_questions")
                  /\ progress[idx].correct_answers
                        = SumOver(S, "correct_answers")

\* C27 (as claimed): the stored mastery_level of a row that a progress update
\* has written is expert iff average_score >= 90 and total_quizzes_taken >= 5,
\* otherwise proficient iff average_score >= 80 and total_quizzes_taken >= 3,
\* otherwise learning iff average_score >= 60 and total_quizzes_taken >= 2,
\* otherwise novice; with one quiz taken it is novice.
C27_MasteryLevelThresholds ==
    \A i \in DOMAIN progress :
        LET p == progress[i]
            a == p.average_score
            n == p.total_quizzes_taken
        IN  n >= 1 =>
               /\ p.mastery_level =
                     IF RatGE(a, RatInt(90)) /\ n >= 5 THEN "expert"
                     ELSE IF RatGE(a, RatInt(80)) /\ n >= 3 THEN "proficient"
                     ELSE IF RatGE(a, RatInt(60)) /\ n >= 2 THEN "learning"
                     ELSE "novice"
               /\ n = 1 => p.mastery_level = "novice"

\* how many entries of a list satisfy type = type and topic = topic
CountOf(recommendations, type, topic) ==
    Cardinality({i \in DOMAIN recommendations :
                    /\ recommendations[i].type = type
                    /\ recommendations[i].topic = topic})

\* C28: for a user with at least one progress record, the candidates of
\* generate_learning_recommendations (the whole list, when max does not cut
\* it) are, per progress row: one knowledge_gap (priority 1, confidence 0.9)
\* iff average_score < 70; one spaced_repetition (priority 2, confidence 0.8)
\* iff next_review_date <= now; one progression (priority 3, confidence 0.7,
\* difficulty = the level above suggested_difficulty) iff mastery_score >= 80
\* and suggested_difficulty is not advanced; nothing else, and no beginner
\* recommendation.
C28_CandidatesPerRow ==
    [][(/\ Returned("generate_learning_recommendations")
        /\ ProgressRecords(out'.call.user_id) # <<>>
        /\ Len(out'.result) < out'.call.max) =>
          LET result == out'.result
              rows == {i \in DOMAIN progress :
                          progress[i].user_id = out'.call.user_id}
          IN  /\ \A i \in rows :
                    LET p == progress[i]
                    IN  /\ CountOf(result, "knowledge_gap", p.topic)
                              = IF ~RatGE(p.average_score, RatInt(70))
                                THEN 1 ELSE 0
                        /\ CountOf(result, "spaced_repetition", p.topic)
                              = IF /\ p.next_review_date.set
                                   /\ p.next_review_date.at <= now
                                THEN 1 ELSE 0
                        /\ CountOf(result, "progression", p.topic)
                              = IF /\ RatGE(p.mastery_score, RatInt(80))
                                   /\ p.suggested_difficulty # "advanced"
                                THEN 1 ELSE 0
              /\ \A k \in DOMAIN result :
                    /\ \E i \in rows : progress[i].topic = result[k].topic
                    /\ \/ /\ result[k].type = "knowledge_gap"
                          /\ result[k].priority = 1
                          /\ result[k].confidence_score = Rat(9, 10)
                       \/ /\ result[k].type = "spaced_repetition"
                          /\ result[k].priority = 2
                          /\ result[k].confidence_score = Rat(8, 10)
                       \/ /\ result[k].type = "progression"
                          /\ result[k].priority = 3
                          /\ result[k].confidence_score = Rat(7, 10)
                          /\ \E i \in rows :
                                /\ progress[i].topic = result[k].topic
                                /\ DifficultyRank(result[k].difficulty)
                                      = DifficultyRank(
                                            progress[i].suggested_difficulty) + 1
         ]_vars

\* a call returned, uncut, a progression next to a spaced_repetition
C28_Witness ==
    /\ out # NoCall
    /\ out.call.op = "generate_learning_recommendations"
    /\ Len(out.result) < out.call.max
    /\ \E i, j \in DOMAIN out.result :
          /\ out.result[i].type = "spaced_repetition"
          /\ out.result[j].type = "progression"

\* C29 (as claimed): over the chronologically ordered sessions, split at
\* len // 2, the insight step emits one improvement insight (confidence 0.8)
\* when the second-half average is higher than the first-half average by 5
\* points or more, one regression insight (confidence 0.8) when it is lower
\* by 5 points or more, and none otherwise; with fewer than 2 sessions none.
C29_InsightAtFivePoints ==
    [][Returned("generate_performance_report") =>
          LET list == SessionsInPeriod(out'.call.user_id)
              mid == Len(list) \div 2
              first == RatOver(SumOfScores(SubSeq(list, 1, mid)), mid)
              second == RatOver(SumOfScores(SubSeq(list, mid + 1, Len(list))),
                                Len(list) - mid)
          IN  (list # <<>> /\ Ordered(list)) =>
                 out'.result.insights =
                    IF Len(list) < 2 THEN <<>>
                    ELSE IF RatGE(second, RatAdd(first, RatInt(5)))
                      THEN <<[type |-> "improvement",
                              confidence |-> Rat(8, 10)]>>
                    ELSE IF RatGE(first, RatAdd(second, RatInt(5)))
                      THEN <<[type |-> "regression",
                              confidence |-> Rat(8, 10)]>>
                    ELSE <<>>]_vars

\* C30: rows of user_progress are written only by the commit of a submit
\* that completes a session with a user and by the commit of the scheduler's
\* update_spaced_repetition.  Every other step (a submit that does not
\* complete its session, the completion of a session without user, the read
\* queries get_spaced_repetition_items, generate_learning_recommendations
\* and identify_knowledge_gaps) leaves every row as it was, no step adds a
\* row, and a call that fails has committed nothing.
C30_ProgressWrittenOnlyByCompletionAndScheduler ==
    [][/\ Len(progress') = Len(progress)
       /\ progress' # progress =>
             \E h \in Handlers : SchedulerCommits(h) \/ CommitsCompletion(h)
       /\ \A h \in Handlers :
             (pc[h] # "done" /\ pc'[h] = "done" /\ ~loc'[h].result.ok) =>
                 ~loc'[h].committed]_vars

\* Session 1, without user, is completed, a first answer of session 2 is
\* stored, a call has failed, the gap query has run, and the row of u1 is
\* still the one the database started with.
C30_Witness ==
    /\ sessions[1].status = "completed"
    /\ sessions[2].status = "in_progress"
    /\ sessions[2].answered_questions = 1
    /\ \E h \in Handlers : pc[h] = "done" /\ ~loc[h].result.ok
    /\ out # NoCall
    /\ out.call.op = "identify_knowledge_gaps"
    /\ progress = SeedRows(SeedKeys)

====
